---- MODULE Spec2Model ----
(***************************************************************************)
(* DocuSpec: document parser, table classifier, canonical key generator,   *)
(* LLM extraction gateway and merge engine.                                *)
(*                                                                         *)
(* Text is modelled at character level: a string is a sequence of          *)
(* characters, a character is a one-symbol TLA+ string.  Cyrillic letters  *)
(* are written by name: the lower-case letter "zh" is "ru_zh", the         *)
(* upper-case one "RU_zh".  An optional (nullable) value is a sequence of  *)
(* length 0 (null) or 1 (the value).                                       *)
(***************************************************************************)
EXTENDS Integers, Sequences, FiniteSets, TLC

VARIABLES
    \* parseDocument (parser.ts)
    mdText, lines, lineIdx, pages, currentPage, currentBlock, inPageMetadata,
    parsePc, doc

parserVars == <<mdText, lines, lineIdx, pages, currentPage, currentBlock,
                inPageMetadata, parsePc, doc>>

\* classifyTable (tableClassifier.ts)
VARIABLES headers, category

classifierVars == <<headers, category>>

\* generateCanonicalKey, slugify (canonical.ts)
VARIABLES name, keyOut, slugOut

canonicalVars == <<name, keyOut, slugOut>>

\* mergeResults (extraction.ts)
VARIABLES ruleBased, llmItems, merged

mergeVars == <<ruleBased, llmItems, merged>>

\* llmExtractBatch (extraction.ts) and callLlmJson (llm.ts)
VARIABLES
    blocks, batchI, results, batchPc, attempt, outstanding,
    callLog, iterations, progressCalls

batchVars == <<blocks, batchI, results, batchPc, attempt, outstanding,
               callLog, iterations, progressCalls>>

\* buildBlock and parseTables (parser.ts) on the lines of one block
VARIABLES blockLines, builtBlock

tablesVars == <<blockLines, builtBlock>>

\* parseRussianNumber (extraction.ts)
VARIABLES numText, numCalled, numResult

numberVars == <<numText, numCalled, numResult>>

\* ruleBasedExtract: the block handed over, the items returned and, table by
\* table, the columns the extractor of the table found for its fields
VARIABLES exBlock, exItems, exColumns

extractVars == <<exBlock, exItems, exColumns>>

\* runExtraction: the stored document (its parsed file, the uids with a
\* doc_blocks record, its material_facts, its status), the hook's progress,
\* the position and locals of the run, and the log of what the run did
VARIABLES runParsed, runStored, runFacts, runDocStatus, runProgress, runPc,
          runRuleResults, runNeedLlm, runLlmI, runLlmResults, runQueue,
          runTotalFacts, runLog

runVars == <<runParsed, runStored, runFacts, runDocStatus, runProgress, runPc,
          runRuleResults, runNeedLlm, runLlmI, runLlmResults, runQueue,
          runTotalFacts, runLog>>

\* callLlmJson (llm.ts): the API key of the environment and the timeout
\* option of the call, the loop variable, lastError, the response awaited,
\* the position, what the caller got, and the log of the call
VARIABLES llmApiKey, llmTimeoutMs, llmAttempt, llmLastError, llmFetched, llmPc,
          llmOutcome, llmLog

llmVars == <<llmApiKey, llmTimeoutMs, llmAttempt, llmLastError, llmFetched, llmPc,
          llmOutcome, llmLog>>

vars == <<parserVars, classifierVars, canonicalVars, mergeVars, batchVars,
          tablesVars, numberVars, extractVars, runVars, llmVars>>

notParserVars == <<classifierVars, canonicalVars, mergeVars, batchVars,
                   tablesVars, numberVars, extractVars, runVars, llmVars>>
notClassifierVars == <<parserVars, canonicalVars, mergeVars, batchVars,
                       tablesVars, numberVars, extractVars, runVars, llmVars>>
notCanonicalVars == <<parserVars, classifierVars, mergeVars, batchVars,
                      tablesVars, numberVars, extractVars, runVars, llmVars>>
notMergeVars == <<parserVars, classifierVars, canonicalVars, batchVars,
                  tablesVars, numberVars, extractVars, runVars, llmVars>>
notBatchVars == <<parserVars, classifierVars, canonicalVars, mergeVars,
                  tablesVars, numberVars, extractVars, runVars, llmVars>>
notTablesVars == <<parserVars, classifierVars, canonicalVars, mergeVars,
                   batchVars, numberVars, extractVars, runVars, llmVars>>
notNumberVars == <<parserVars, classifierVars, canonicalVars, mergeVars,
                   batchVars, tablesVars, extractVars, runVars, llmVars>>
notExtractVars == <<parserVars, classifierVars, canonicalVars, mergeVars,
                    batchVars, tablesVars, numberVars, runVars, llmVars>>
notRunVars == <<parserVars, classifierVars, canonicalVars, mergeVars,
                batchVars, tablesVars, numberVars, extractVars, llmVars>>
notLlmVars == <<parserVars, classifierVars, canonicalVars, mergeVars,
                batchVars, tablesVars, numberVars, extractVars, runVars>>

(***************************************************************************)
(* Bounds of the model.                                                    *)
(***************************************************************************)
MaxLines == 4
MaxHeaders == 4
MaxFragments == 3
MaxItems == 2
MaxBlocks == 3
MaxContentLines == 5
MaxNumLen == 4

(***************************************************************************)
(* Characters and strings.                                                 *)
(***************************************************************************)
Null == <<>>
Some(x) == <<x>>

ru(s) == [k \in DOMAIN s |-> "ru_" \o s[k]]
RU(s) == [k \in DOMAIN s |-> "RU_" \o s[k]]

Digits == {"0", "1", "2", "3", "4", "5", "6", "7", "8", "9"}
LatinUpper == {"A", "B", "C", "D", "E", "F", "G", "H", "I", "J", "K", "L", "M",
               "N", "O", "P", "Q", "R", "S", "T", "U", "V", "W", "X", "Y", "Z"}
LineTerminators == {"\n", "\r"}
WhiteSpace == {" ", "\t"} \cup LineTerminators

DigitValue == [c \in Digits |->
    CASE c = "0" -> 0 [] c = "1" -> 1 [] c = "2" -> 2 [] c = "3" -> 3
      [] c = "4" -> 4 [] c = "5" -> 5 [] c = "6" -> 6 [] c = "7" -> 7
      [] c = "8" -> 8 [] c = "9" -> 9]

\* s.startsWith(p, k - 1) for the 1-based position k
PrefixAt(s, k, p) ==
    /\ k + Len(p) - 1 <= Len(s)
    /\ \A j \in 1..Len(p) : s[k + j - 1] = p[j]

StartsWith(s, p) == PrefixAt(s, 1, p)

\* s.slice(k - 1)
DropFirst(s, k) == SubSeq(s, k, Len(s))

RECURSIVE TrimStart(_)
TrimStart(s) ==
    IF s /= <<>> /\ Head(s) \in WhiteSpace THEN TrimStart(Tail(s)) ELSE s

RECURSIVE TrimEnd(_)
TrimEnd(s) ==
    IF s /= <<>> /\ s[Len(s)] \in WhiteSpace
    THEN TrimEnd(SubSeq(s, 1, Len(s) - 1)) ELSE s

\* String.prototype.trim
Trim(s) == TrimEnd(TrimStart(s))

\* Array.prototype.join(sep)
RECURSIVE Join(_, _)
Join(ls, sep) ==
    IF ls = <<>> THEN <<>>
    ELSE IF Len(ls) = 1 THEN ls[1]
    ELSE ls[1] \o sep \o Join(Tail(ls), sep)

\* String.prototype.split(sep) for a one-character separator: never empty,
\* ''.split(sep) is [''].
RECURSIVE SplitFrom(_, _, _)
SplitFrom(s, sep, cur) ==
    IF s = <<>> THEN <<cur>>
    ELSE IF Head(s) = sep THEN <<cur>> \o SplitFrom(Tail(s), sep, <<>>)
    ELSE SplitFrom(Tail(s), sep, Append(cur, Head(s)))

Split(s, sep) == SplitFrom(s, sep, <<>>)

\* parseInt(digits, 10) for a non-empty run of decimal digits
RECURSIVE ParseIntFrom(_, _)
ParseIntFrom(s, acc) ==
    IF s = <<>> THEN acc
    ELSE ParseIntFrom(Tail(s), 10 * acc + DigitValue[Head(s)])

parseInt(s) == ParseIntFrom(s, 0)

(***************************************************************************)
(* parser.ts: the line patterns.                                           *)
(***************************************************************************)
PAGE_PREFIX == <<"#", "#", " ">> \o RU(<<"s", "t", "r", "a", "n", "i", "ts", "a">>)
               \o <<" ">>
SHEET_LABEL_PREFIX == <<"*", "*", "RU_l", "ru_i", "ru_s", "ru_t", ":", "*", "*">>
SHEET_NAME_PREFIX ==
    <<"*", "*", "RU_n">> \o ru(<<"a", "i", "m", "e", "n", "o", "v", "a", "n", "i", "e">>)
    \o <<" ">> \o ru(<<"l", "i", "s", "t", "a">>) \o <<":", "*", "*">>
BLOCK_PREFIX == <<"#", "#", "#", " ", "B", "L", "O", "C", "K", " ", "[">>
BLOCK_TEXT == <<"T", "E", "X", "T">>
BLOCK_IMAGE == <<"I", "M", "A", "G", "E">>
BLOCK_CLOSE == <<"]", ":">>
ERROR_OPEN == <<"[", "RU_o">> \o ru(<<"sh", "i", "b", "k", "a">>)

\* PAGE_RE = /^## СТРАНИЦА (\d+)$/
PAGE_RE(line) ==
    /\ StartsWith(line, PAGE_PREFIX)
    /\ Len(line) > Len(PAGE_PREFIX)
    /\ \A k \in Len(PAGE_PREFIX) + 1..Len(line) : line[k] \in Digits

PAGE_RE_group1(line) == DropFirst(line, Len(PAGE_PREFIX) + 1)

\* /^<prefix>\s*(.+)$/ : the prefix, then at least one character that is not
\* a line terminator ("." does not match one)
LabelledLine(line, prefix) ==
    /\ StartsWith(line, prefix)
    /\ Len(line) > Len(prefix)
    /\ \E k \in Len(prefix) + 1..Len(line) :
          /\ \A j \in Len(prefix) + 1..k - 1 : line[j] \in WhiteSpace
          /\ \A j \in k..Len(line) : line[j] \notin LineTerminators

\* SHEET_LABEL_RE = /^\*\*Лист:\*\*\s*(.+)$/
SHEET_LABEL_RE(line) == LabelledLine(line, SHEET_LABEL_PREFIX)
\* SHEET_NAME_RE = /^\*\*Наименование листа:\*\*\s*(.+)$/
SHEET_NAME_RE(line) == LabelledLine(line, SHEET_NAME_PREFIX)

\* group 1 of a labelled line, trimmed (the callers trim it)
LabelValue(line, prefix) == Trim(DropFirst(line, Len(prefix) + 1))

\* [A-Z0-9]+-[A-Z0-9]+-[A-Z0-9]+ , the whole of s
IsUid(s) ==
    LET parts == Split(s, "-")
    IN  /\ Len(parts) = 3
        /\ \A p \in 1..3 :
              /\ parts[p] /= <<>>
              /\ \A k \in 1..Len(parts[p]) : parts[p][k] \in LatinUpper \cup Digits

\* the block type of a line that begins "### BLOCK [TEXT]:" or "### BLOCK [IMAGE]:"
BlockHead(line) ==
    IF PrefixAt(line, 1, BLOCK_PREFIX \o BLOCK_TEXT \o BLOCK_CLOSE)
    THEN Some(BLOCK_TEXT)
    ELSE IF PrefixAt(line, 1, BLOCK_PREFIX \o BLOCK_IMAGE \o BLOCK_CLOSE)
    THEN Some(BLOCK_IMAGE)
    ELSE Null

BlockRest(line) ==
    TrimStart(DropFirst(line, Len(BLOCK_PREFIX) + Len(BlockHead(line)[1])
                              + Len(BLOCK_CLOSE) + 1))

\* BLOCK_RE = /^### BLOCK \[(TEXT|IMAGE)\]:\s*([A-Z0-9]+-[A-Z0-9]+-[A-Z0-9]+)$/
BLOCK_RE(line) == BlockHead(line) /= Null /\ IsUid(BlockRest(line))
BLOCK_RE_group1(line) == BlockHead(line)[1]
BLOCK_RE_group2(line) == BlockRest(line)

\* TABLE_ROW_RE = /^\|.+\|$/ (no m flag: the whole of s, "." matches no
\* line terminator)
TABLE_ROW_RE(s) ==
    /\ Len(s) >= 3
    /\ s[1] = "|"
    /\ s[Len(s)] = "|"
    /\ \A k \in 2..Len(s) - 1 : s[k] \notin LineTerminators

\* TABLE_SEPARATOR_RE = /^\|[\s\-:|]+\|$/
TABLE_SEPARATOR_RE(s) ==
    /\ Len(s) >= 3
    /\ s[1] = "|"
    /\ s[Len(s)] = "|"
    /\ \A k \in 2..Len(s) - 1 : s[k] \in WhiteSpace \cup {"-", ":", "|"}

\* the positions where /\[Ошибка[^\]]*\]/ can start matching
ErrorStarts(s) ==
    {k \in 1..Len(s) :
        /\ PrefixAt(s, k, ERROR_OPEN)
        /\ \E j \in k + Len(ERROR_OPEN)..Len(s) : s[j] = "]"}

\* ERROR_RE = /\[Ошибка[^\]]*\]/ , ERROR_RE.test(s)
ERROR_RE(s) == ErrorStarts(s) /= {}

Min(S) == CHOOSE x \in S : \A y \in S : x <= y

\* s.match(/\[Ошибка[^\]]*\]/)[0]: the leftmost match, up to the first "]"
ERROR_RE_match(s) ==
    LET k == Min(ErrorStarts(s))
        j == Min({e \in k + Len(ERROR_OPEN)..Len(s) : s[e] = "]"})
    IN  SubSeq(s, k, j)

\* the number of leading '#' of a line
RECURSIVE HashRun(_)
HashRun(s) == IF s /= <<>> /\ Head(s) = "#" THEN 1 + HashRun(Tail(s)) ELSE 0

\* SECTION_RE = /^#{4,6}\s+(.+)$/
SECTION_RE(line) ==
    LET h == HashRun(line)
    IN  /\ h \in 4..6
        /\ \E k \in h + 2..Len(line) :
              /\ \A j \in h + 1..k - 1 : line[j] \in WhiteSpace
              /\ \A j \in k..Len(line) : line[j] \notin LineTerminators

\* group 1 of SECTION_RE, trimmed (every caller trims it)
SECTION_RE_group1_trim(line) == Trim(DropFirst(line, HashRun(line) + 1))

(***************************************************************************)
(* parser.ts: tables and blocks.                                           *)
(***************************************************************************)
\* splitTableRow: strip one leading and one trailing '|', split on '|', trim
splitTableRow(line) ==
    LET a == IF line /= <<>> /\ Head(line) = "|" THEN Tail(line) ELSE line
        b == IF a /= <<>> /\ a[Len(a)] = "|" THEN SubSeq(a, 1, Len(a) - 1) ELSE a
        cells == Split(b, "|")
    IN  [k \in DOMAIN cells |-> Trim(cells[k])]

\* mutant of DataRows: the separator rows are kept as data rows
RECURSIVE DataRows_withSeparators(_, _)
DataRows_withSeparators(tableLines, k) ==
    IF k > Len(tableLines) THEN <<>>
    ELSE <<splitTableRow(tableLines[k])>> \o DataRows_withSeparators(tableLines, k + 1)

\* the rows of tableLines from index k on, separator rows skipped
RECURSIVE DataRows(_, _)
DataRows(tableLines, k) ==
    IF k > Len(tableLines) THEN <<>>
    ELSE IF TABLE_SEPARATOR_RE(tableLines[k]) THEN DataRows(tableLines, k + 1)
    ELSE <<splitTableRow(tableLines[k])>> \o DataRows(tableLines, k + 1)

\* parseMarkdownTable, called with at least two lines
parseMarkdownTable(tableLines, sectionContext) ==
    LET dataStart == IF Len(tableLines) > 1 /\ TABLE_SEPARATOR_RE(tableLines[2])
                     THEN 3 ELSE 2
    IN  [headers |-> splitTableRow(tableLines[1]),
         rows |-> DataRows(tableLines, dataStart),
         sectionContext |-> sectionContext]

\* the index after the run of table rows that starts at k
RECURSIVE RunEnd(_, _)
RunEnd(ls, k) ==
    IF k <= Len(ls) /\ TABLE_ROW_RE(ls[k]) THEN RunEnd(ls, k + 1) ELSE k

\* the while loop of parseTables from index k with the running section
RECURSIVE ParseTablesFrom(_, _, _)
ParseTablesFrom(ls, k, currentSection) ==
    IF k > Len(ls) THEN <<>>
    ELSE IF SECTION_RE(ls[k])
    THEN ParseTablesFrom(ls, k + 1, Some(SECTION_RE_group1_trim(ls[k])))
    ELSE IF ~TABLE_ROW_RE(ls[k])
    THEN ParseTablesFrom(ls, k + 1, currentSection)
    ELSE LET e == RunEnd(ls, k)
             tableLines == SubSeq(ls, k, e - 1)
         IN  IF Len(tableLines) < 2
             THEN ParseTablesFrom(ls, e, currentSection)
             ELSE <<parseMarkdownTable(tableLines, currentSection)>>
                  \o ParseTablesFrom(ls, e, currentSection)

parseTables(ls, defaultSection) == ParseTablesFrom(ls, 1, defaultSection)

\* the first heading of level 4-6 with non-empty text, or null
RECURSIVE FirstSectionTitle(_)
FirstSectionTitle(ls) ==
    IF ls = <<>> THEN Null
    ELSE IF SECTION_RE(Head(ls)) /\ Len(SECTION_RE_group1_trim(Head(ls))) > 0
    THEN Some(SECTION_RE_group1_trim(Head(ls)))
    ELSE FirstSectionTitle(Tail(ls))

buildBlock(uid, type, contentLines) ==
    LET content == Trim(Join(contentLines, <<"\n">>))
        hasError == ERROR_RE(content)
        errorText == IF hasError THEN Some(ERROR_RE_match(content)) ELSE Null
        sectionTitle == FirstSectionTitle(contentLines)
        hasTable == \E k \in 1..Len(contentLines) : TABLE_ROW_RE(contentLines[k])
    IN  [uid |-> uid, type |-> type, content |-> content, hasTable |-> hasTable,
         hasError |-> hasError, errorText |-> errorText,
         sectionTitle |-> sectionTitle,
         tables |-> IF hasTable THEN parseTables(contentLines, sectionTitle)
                    ELSE <<>>]

FALLBACK_UID == <<"F", "A", "L", "L", "B", "A", "C", "K", "-", "0", "0", "0", "0",
                  "-", "0", "0", "0">>

\* mutant of fallbackPage: the content trimmed as buildBlock trims it
fallbackPage_trimmed(text) ==
    [pageNo |-> 1, sheetLabel |-> Null, sheetName |-> Null,
     blocks |-> << [uid |-> FALLBACK_UID, type |-> BLOCK_TEXT,
                    content |-> Trim(text),
                    hasTable |-> TABLE_ROW_RE(text), hasError |-> ERROR_RE(text),
                    errorText |-> Null, sectionTitle |-> Null, tables |-> <<>>] >>]

\* the fallback page of parseDocument: the whole text as one TEXT block
fallbackPage(text) ==
    [pageNo |-> 1, sheetLabel |-> Null, sheetName |-> Null,
     blocks |-> << [uid |-> FALLBACK_UID, type |-> BLOCK_TEXT, content |-> text,
                    hasTable |-> TABLE_ROW_RE(text), hasError |-> ERROR_RE(text),
                    errorText |-> Null, sectionTitle |-> Null, tables |-> <<>>] >>]

(***************************************************************************)
(* parser.ts: parseDocument, one step per line of the scan.                *)
(***************************************************************************)
NoPage == 0
NoBlock == <<>>

\* finalizeBlock: the pages after pushing the open block to the open page
finalizeBlock_pages(pgs, cp, cb) ==
    IF cb = NoBlock \/ cp = NoPage THEN pgs
    ELSE [pgs EXCEPT ![cp].blocks =
              Append(@, buildBlock(cb[1].uid, cb[1].type, cb[1].lines))]

\* finalizeBlock: the open block afterwards
finalizeBlock_block(cp, cb) == IF cb = NoBlock \/ cp = NoPage THEN cb ELSE NoBlock

RECURSIVE SumSeq(_)
SumSeq(s) == IF s = <<>> THEN 0 ELSE Head(s) + SumSeq(Tail(s))

\* "Count totals": the two counting loops over pages and blocks
countTotalBlocks(pgs) == SumSeq([p \in DOMAIN pgs |-> Len(pgs[p].blocks)])

\* mutant of countErrorBlocks: a block counts when it has an errorText
countErrorBlocks_byErrorText(pgs) ==
    SumSeq([p \in DOMAIN pgs |->
              Cardinality({b \in DOMAIN pgs[p].blocks :
                              pgs[p].blocks[b].errorText /= Null})])

countErrorBlocks(pgs) ==
    SumSeq([p \in DOMAIN pgs |->
              Cardinality({b \in DOMAIN pgs[p].blocks : pgs[p].blocks[b].hasError})])

NoDoc == [pages |-> <<>>, totalBlocks |-> 0, errorBlocks |-> 0]

CurLine == lines[lineIdx]
Scanning == parsePc = "scan" /\ lineIdx <= Len(lines)

\* parseDocument entered: lines = mdText.split('\n')
ParseStart ==
    /\ parsePc = "start"
    /\ lines' = Split(mdText, "\n")
    /\ lineIdx' = 1
    /\ parsePc' = "scan"
    /\ UNCHANGED <<mdText, pages, currentPage, currentBlock, inPageMetadata, doc>>
    /\ UNCHANGED notParserVars

InMetadataLine ==
    /\ currentPage /= NoPage
    /\ inPageMetadata
    /\ \/ SHEET_LABEL_RE(CurLine)
       \/ SHEET_NAME_RE(CurLine)
       \/ Trim(CurLine) = <<>>

\* which branch of the loop body takes the current line
AtPageHeader == Scanning /\ PAGE_RE(CurLine)
AtPageMetadata == Scanning /\ ~PAGE_RE(CurLine) /\ InMetadataLine
AtBlockHeader ==
    Scanning /\ ~PAGE_RE(CurLine) /\ ~InMetadataLine /\ BLOCK_RE(CurLine)
AtContent ==
    Scanning /\ ~PAGE_RE(CurLine) /\ ~InMetadataLine /\ ~BLOCK_RE(CurLine)
AtEnd == parsePc = "scan" /\ lineIdx > Len(lines)

\* parseDocument has a statement to execute
CanStep ==
    parsePc = "start" \/ AtPageHeader \/ AtPageMetadata \/ AtBlockHeader
    \/ AtContent \/ AtEnd

\* a page header line
ScanPageHeader ==
    /\ AtPageHeader
    /\ LET done == finalizeBlock_pages(pages, currentPage, currentBlock)
       IN  /\ pages' = Append(done,
                  [pageNo |-> parseInt(PAGE_RE_group1(CurLine)),
                   sheetLabel |-> Null, sheetName |-> Null, blocks |-> <<>>])
           /\ currentPage' = Len(done) + 1
    /\ currentBlock' = finalizeBlock_block(currentPage, currentBlock)
    /\ inPageMetadata' = TRUE
    /\ lineIdx' = lineIdx + 1
    /\ UNCHANGED <<mdText, lines, parsePc, doc>>
    /\ UNCHANGED notParserVars

\* a sheet label, sheet name or blank line between a page header and its
\* first block
ScanPageMetadata ==
    /\ AtPageMetadata
    /\ pages' = IF SHEET_LABEL_RE(CurLine)
                THEN [pages EXCEPT ![currentPage].sheetLabel =
                          Some(LabelValue(CurLine, SHEET_LABEL_PREFIX))]
                ELSE IF SHEET_NAME_RE(CurLine)
                THEN [pages EXCEPT ![currentPage].sheetName =
                          Some(LabelValue(CurLine, SHEET_NAME_PREFIX))]
                ELSE pages
    /\ lineIdx' = lineIdx + 1
    /\ UNCHANGED <<mdText, lines, currentPage, currentBlock, inPageMetadata,
                   parsePc, doc>>
    /\ UNCHANGED notParserVars

\* mutant of ScanBlockHeader: the metadata mode is not left
ScanBlockHeader_inMetadata ==
    /\ AtBlockHeader
    /\ LET done == finalizeBlock_pages(pages, currentPage, currentBlock)
       IN  IF currentPage = NoPage
           THEN /\ pages' = Append(done, [pageNo |-> 1, sheetLabel |-> Null,
                                          sheetName |-> Null, blocks |-> <<>>])
                /\ currentPage' = Len(done) + 1
           ELSE /\ pages' = done
                /\ currentPage' = currentPage
    /\ inPageMetadata' = inPageMetadata
    /\ currentBlock' = Some([type |-> BLOCK_RE_group1(CurLine),
                             uid |-> BLOCK_RE_group2(CurLine),
                             lines |-> <<>>])
    /\ lineIdx' = lineIdx + 1
    /\ UNCHANGED <<mdText, lines, parsePc, doc>>
    /\ UNCHANGED notParserVars

\* a block header line
ScanBlockHeader ==
    /\ AtBlockHeader
    /\ LET done == finalizeBlock_pages(pages, currentPage, currentBlock)
       IN  IF currentPage = NoPage
           THEN /\ pages' = Append(done, [pageNo |-> 1, sheetLabel |-> Null,
                                          sheetName |-> Null, blocks |-> <<>>])
                /\ currentPage' = Len(done) + 1
           ELSE /\ pages' = done
                /\ currentPage' = currentPage
    /\ inPageMetadata' = FALSE
    /\ currentBlock' = Some([type |-> BLOCK_RE_group1(CurLine),
                             uid |-> BLOCK_RE_group2(CurLine),
                             lines |-> <<>>])
    /\ lineIdx' = lineIdx + 1
    /\ UNCHANGED <<mdText, lines, parsePc, doc>>
    /\ UNCHANGED notParserVars

\* any other line: content of the open block, dropped when none is open
ScanContent ==
    /\ AtContent
    /\ currentBlock' = IF currentBlock = NoBlock THEN NoBlock
                       ELSE Some([currentBlock[1] EXCEPT !.lines = Append(@, CurLine)])
    /\ lineIdx' = lineIdx + 1
    /\ UNCHANGED <<mdText, lines, pages, currentPage, inPageMetadata, parsePc, doc>>
    /\ UNCHANGED notParserVars

\* mutant of ParseFinish: no fallback page when the scan produced none
ParseFinish_noFallback ==
    /\ AtEnd
    /\ LET done == finalizeBlock_pages(pages, currentPage, currentBlock)
       IN  /\ pages' = done
           /\ doc' = [pages |-> done,
                      totalBlocks |-> countTotalBlocks(done),
                      errorBlocks |-> countErrorBlocks(done)]
    /\ currentBlock' = finalizeBlock_block(currentPage, currentBlock)
    /\ currentPage' = NoPage
    /\ inPageMetadata' = FALSE
    /\ parsePc' = "done"
    /\ UNCHANGED <<mdText, lines, lineIdx>>
    /\ UNCHANGED notParserVars

\* end of input: finalizePage, the fallback, the totals, return
ParseFinish ==
    /\ AtEnd
    /\ LET done == finalizeBlock_pages(pages, currentPage, currentBlock)
           final == IF Len(done) = 0 THEN <<fallbackPage(mdText)>> ELSE done
       IN  /\ pages' = final
           /\ doc' = [pages |-> final,
                      totalBlocks |-> countTotalBlocks(final),
                      errorBlocks |-> countErrorBlocks(final)]
    /\ currentBlock' = finalizeBlock_block(currentPage, currentBlock)
    /\ currentPage' = NoPage
    /\ inPageMetadata' = FALSE
    /\ parsePc' = "done"
    /\ UNCHANGED <<mdText, lines, lineIdx>>
    /\ UNCHANGED notParserVars

ParserNext ==
    \/ ParseStart
    \/ ScanPageHeader
    \/ ScanPageMetadata
    \/ ScanBlockHeader
    \/ ScanContent
    \/ ParseFinish

(***************************************************************************)
(* The documents parsed: every text of at most MaxLines lines drawn from   *)
(* ParserLines.                                                            *)
(***************************************************************************)
LINE_PAGE_1 == PAGE_PREFIX \o <<"1">>
LINE_PAGE_2 == PAGE_PREFIX \o <<"2">>
LINE_SHEET_LABEL == SHEET_LABEL_PREFIX \o <<" ", "3">>
LINE_BLOCK_TEXT ==
    BLOCK_PREFIX \o BLOCK_TEXT \o BLOCK_CLOSE \o <<" ", "A", "-", "1", "-", "B">>
LINE_BLOCK_IMAGE ==
    BLOCK_PREFIX \o BLOCK_IMAGE \o BLOCK_CLOSE \o <<" ", "C", "-", "2", "-", "D">>
LINE_EMPTY == <<>>
LINE_PLAIN == <<"a", "b">>
LINE_ERROR == <<"a", " ">> \o ERROR_OPEN \o <<" ", "x", "]">>
LINE_ROW == <<"|", "a", "|", "b", "|">>

ParserLines ==
    {LINE_PAGE_1, LINE_PAGE_2, LINE_SHEET_LABEL, LINE_BLOCK_TEXT, LINE_BLOCK_IMAGE,
     LINE_EMPTY, LINE_PLAIN, LINE_ERROR, LINE_ROW}

SeqsUpTo(S, n) == UNION {[1..k -> S] : k \in 1..n}

ParserTexts == {Join(ls, <<"\n">>) : ls \in SeqsUpTo(ParserLines, MaxLines)}

ParserInit ==
    /\ mdText \in ParserTexts
    /\ lines = <<>>
    /\ lineIdx = 1
    /\ pages = <<>>
    /\ currentPage = NoPage
    /\ currentBlock = NoBlock
    /\ inPageMetadata = FALSE
    /\ parsePc = "start"
    /\ doc = NoDoc

(***************************************************************************)
(* Properties of parseDocument.                                            *)
(***************************************************************************)
ParseDone == parsePc = "done"

\* the blocks of all pages, in order
RECURSIVE AllBlocks(_)
AllBlocks(pgs) ==
    IF pgs = <<>> THEN <<>> ELSE Head(pgs).blocks \o AllBlocks(Tail(pgs))

PageMarkers == {k \in DOMAIN lines : PAGE_RE(lines[k])}
BlockMarkers == {k \in DOMAIN lines : BLOCK_RE(lines[k])}
NoMarkers == PageMarkers = {} /\ BlockMarkers = {}

\* C1 as stated: for any input, parseDocument returns a document with
\* exactly one page, and that page has at least one block.
C1_ExactlyOnePageWithBlock ==
    ParseDone => Len(doc.pages) = 1 /\ Len(doc.pages[1].blocks) >= 1

\* C1 amended: for any input, including the empty string, parseDocument
\* runs to its return (every line of the scan is handled by one of its
\* branches) and the returned document has at least one page; when the input
\* has no page marker and no block marker it has exactly one page, and that
\* page has exactly one block.
C1_ParserTotal ==
    /\ ~ParseDone => CanStep
    /\ ParseDone =>
          /\ Len(doc.pages) >= 1
          /\ NoMarkers => Len(doc.pages) = 1 /\ Len(doc.pages[1].blocks) = 1

\* C1 witness: the empty string has been parsed
C1_Witness == ParseDone /\ mdText = <<>> /\ Len(doc.pages) = 1

\* the number of pages the line scan produces: one per page marker, and a
\* default page when a block marker comes before every page marker
ScannedPageCount ==
    Cardinality(PageMarkers)
    + (IF \E b \in BlockMarkers : \A p \in PageMarkers : b < p THEN 1 ELSE 0)

\* C2: when the scan produces zero pages the document is one page numbered 1
\* with the single block FALLBACK-0000-000, type TEXT, content the whole
\* input, no tables, and totalBlocks is 1; when the scan produces a page, no
\* page and no block is added to what the markers give.
C2_Fallback ==
    ParseDone =>
        IF NoMarkers
        THEN /\ Len(doc.pages) = 1
             /\ doc.pages[1].pageNo = 1
             /\ Len(doc.pages[1].blocks) = 1
             /\ doc.pages[1].blocks[1].uid = FALLBACK_UID
             /\ doc.pages[1].blocks[1].type = BLOCK_TEXT
             /\ doc.pages[1].blocks[1].content = mdText
             /\ doc.pages[1].blocks[1].tables = <<>>
             /\ doc.totalBlocks = 1
        ELSE /\ Len(doc.pages) = ScannedPageCount
             /\ Len(AllBlocks(doc.pages)) = Cardinality(BlockMarkers)
             /\ \A k \in DOMAIN AllBlocks(doc.pages) :
                    AllBlocks(doc.pages)[k].uid /= FALLBACK_UID

\* C2 witness: a marker-free text of several lines became the fallback block
C2_Witness ==
    /\ ParseDone
    /\ NoMarkers
    /\ Len(lines) >= 2
    /\ doc.pages[1].blocks[1].uid = FALLBACK_UID

\* C3: totalBlocks is the sum of the pages' block counts and errorBlocks the
\* number of blocks whose content contains a bracketed error marker, for
\* marker-built documents and for the fallback document.
C3_BlockAccounting ==
    ParseDone =>
        LET bs == AllBlocks(doc.pages)
        IN  /\ doc.totalBlocks = Len(bs)
            /\ doc.errorBlocks =
                   Cardinality({k \in DOMAIN bs : ERROR_RE(bs[k].content)})

\* C3 witness: two pages, two blocks, one of them with an error marker
C3_Witness ==
    /\ ParseDone
    /\ Len(doc.pages) = 2
    /\ doc.totalBlocks = 2
    /\ doc.errorBlocks = 1

\* C3 witness for the fallback document with an error marker
C3_WitnessFallback ==
    ParseDone /\ NoMarkers /\ doc.errorBlocks = 1 /\ doc.totalBlocks = 1

\* the members of a set of numbers in increasing order
SortedSeq(S) ==
    [k \in 1..Cardinality(S) |-> CHOOSE x \in S : Cardinality({y \in S : y <= x}) = k]

\* a default page is opened: a block marker comes before every page marker
HasDefaultPage == \E b \in BlockMarkers : \A pm \in PageMarkers : b < pm

\* the line that opens page n of the output, 0 for the default page
PageStart(n) ==
    IF HasDefaultPage
    THEN (IF n = 1 THEN 0 ELSE SortedSeq(PageMarkers)[n - 1])
    ELSE SortedSeq(PageMarkers)[n]

\* the first marker line after line k of the given markers, or end of input
NextOf(markers, k) == Min({m \in markers : m > k} \cup {Len(lines) + 1})

\* the block markers of output page n, in source order
BlockMarkersOf(n) ==
    SortedSeq({b \in BlockMarkers :
                  PageStart(n) < b /\ b < NextOf(PageMarkers, PageStart(n))})

\* the lines between block marker b and the next marker or the end of input
LinesOfBlock(b) ==
    SubSeq(lines, b + 1, NextOf(PageMarkers \cup BlockMarkers, b) - 1)

WrittenPageNo(line) == IF line = LINE_PAGE_1 THEN 1 ELSE 2
WrittenUid(line) ==
    IF line = LINE_BLOCK_TEXT THEN <<"A", "-", "1", "-", "B">>
    ELSE <<"C", "-", "2", "-", "D">>
WrittenType(line) == IF line = LINE_BLOCK_TEXT THEN BLOCK_TEXT ELSE BLOCK_IMAGE

\* pages and blocks are those of the markers; the content of a block is
\* contentOf applied to the lines that follow its marker
PagesAsMarked(contentOf(_)) ==
    /\ Len(doc.pages) = Cardinality(PageMarkers) + (IF HasDefaultPage THEN 1 ELSE 0)
    /\ \A n \in DOMAIN doc.pages :
           /\ doc.pages[n].pageNo =
                  (IF PageStart(n) = 0 THEN 1 ELSE WrittenPageNo(lines[PageStart(n)]))
           /\ Len(doc.pages[n].blocks) = Len(BlockMarkersOf(n))
           /\ \A k \in DOMAIN doc.pages[n].blocks :
                  LET b == BlockMarkersOf(n)[k]
                      block == doc.pages[n].blocks[k]
                  IN  /\ block.uid = WrittenUid(lines[b])
                      /\ block.type = WrittenType(lines[b])
                      /\ block.content = contentOf(LinesOfBlock(b))

JoinedLines(ls) == Join(ls, <<"\n">>)
JoinedTrimmed(ls) == Trim(Join(ls, <<"\n">>))

\* C17 as stated: for any sequence of lines the output has one page per page
\* marker, after a default page numbered 1 exactly when a block marker comes
\* before the first page marker, one block per block marker in the page of
\* the nearest preceding page marker, and a block's content is exactly the
\* lines between its marker and the next marker or the end of input.
C17_PagesAndBlocksAsStated == ParseDone => PagesAsMarked(JoinedLines)

\* C17 amended: the same for every input that has a page marker or a block
\* marker, the content of a block being the lines that follow its marker
\* joined by newlines and trimmed of leading and trailing white space.
C17_PagesAndBlocks == ParseDone /\ ~NoMarkers => PagesAsMarked(JoinedTrimmed)

\* C17 witness: a block before the first page marker, then two pages with
\* the same number, the first block with a blank line trimmed away
C17_Witness ==
    /\ ParseDone
    /\ lines = <<LINE_BLOCK_TEXT, LINE_EMPTY, LINE_PAGE_2, LINE_PAGE_2>>
    /\ Len(doc.pages) = 3
    /\ doc.pages[1].pageNo = 1
    /\ doc.pages[1].blocks[1].content = <<>>
    /\ doc.pages[3].pageNo = 2

\* C18: the block of the fallback document has the hasTable and hasError
\* that buildBlock gives for the same text: hasTable exactly when some line
\* of the input is a table row, also for an input of several lines, and
\* hasError exactly when the input contains a bracketed error marker.
C18_FallbackDetection ==
    ParseDone /\ NoMarkers =>
        LET block == doc.pages[1].blocks[1]
            built == buildBlock(FALLBACK_UID, BLOCK_TEXT, lines)
        IN  /\ block.hasTable = built.hasTable
            /\ block.hasTable = (\E k \in DOMAIN lines : TABLE_ROW_RE(lines[k]))
            /\ block.hasError = built.hasError
            /\ block.hasError = (\E k \in DOMAIN mdText : PrefixAt(mdText, k, ERROR_OPEN)
                                     /\ \E j \in k + Len(ERROR_OPEN)..Len(mdText) :
                                            mdText[j] = "]")

\* C18: a table row followed by a second line was parsed as the fallback
\* document, whose block has hasTable false
C18_Witness ==
    /\ ParseDone
    /\ lines = <<LINE_ROW, LINE_PLAIN>>
    /\ doc.pages[1].blocks[1].uid = FALLBACK_UID
    /\ ~doc.pages[1].blocks[1].hasTable
    /\ buildBlock(FALLBACK_UID, BLOCK_TEXT, lines).hasTable

\* C18, the hasError half alone
C18_FallbackHasError ==
    ParseDone /\ NoMarkers =>
        doc.pages[1].blocks[1].hasError
            = buildBlock(FALLBACK_UID, BLOCK_TEXT, lines).hasError

\* C18, for the inputs of one line
C18_FallbackSingleLine ==
    ParseDone /\ NoMarkers /\ Len(lines) = 1 =>
        doc.pages[1].blocks[1].hasTable = TABLE_ROW_RE(lines[1])

(***************************************************************************)
(* Letter case.                                                            *)
(***************************************************************************)
RuLetters ==
    {"a", "b", "v", "g", "d", "e", "yo", "zh", "z", "i", "j", "k", "l", "m", "n",
     "o", "p", "r", "s", "t", "u", "f", "kh", "ts", "ch", "sh", "shch", "hard",
     "y", "soft", "eh", "yu", "ya"}
LatinUpperSeq ==
    <<"A", "B", "C", "D", "E", "F", "G", "H", "I", "J", "K", "L", "M",
      "N", "O", "P", "Q", "R", "S", "T", "U", "V", "W", "X", "Y", "Z">>
LatinLowerSeq ==
    <<"a", "b", "c", "d", "e", "f", "g", "h", "i", "j", "k", "l", "m",
      "n", "o", "p", "q", "r", "s", "t", "u", "v", "w", "x", "y", "z">>
LatinLower == {LatinLowerSeq[k] : k \in DOMAIN LatinLowerSeq}

\* the lower-case letter of every upper-case letter
ToLowerTable ==
    [c \in LatinUpper \cup {"RU_" \o x : x \in RuLetters} |->
        IF c \in LatinUpper
        THEN LatinLowerSeq[CHOOSE k \in DOMAIN LatinUpperSeq : LatinUpperSeq[k] = c]
        ELSE "ru_" \o (CHOOSE x \in RuLetters : c = "RU_" \o x)]

toLowerCaseChar(c) == IF c \in DOMAIN ToLowerTable THEN ToLowerTable[c] ELSE c

\* String.prototype.toLowerCase
RECURSIVE toLowerCase(_)
toLowerCase(s) ==
    IF s = <<>> THEN <<>> ELSE <<toLowerCaseChar(Head(s))>> \o toLowerCase(Tail(s))

\* String.prototype.includes
includes(s, sub) == \E k \in 1..Len(s) - Len(sub) + 1 : PrefixAt(s, k, sub)

(***************************************************************************)
(* tableClassifier.ts                                                      *)
(***************************************************************************)
KW_izm == ru(<<"i", "z", "m">>)
KW_podp == ru(<<"p", "o", "d", "p">>)
KW_data == ru(<<"d", "a", "t", "a">>)
KW_no_pom == <<"numero", " ">> \o ru(<<"p", "o", "m">>)
KW_nomer_pom == ru(<<"n", "o", "m", "e", "r">>) \o <<" ">> \o ru(<<"p", "o", "m">>)
KW_ploshchad == ru(<<"p", "l", "o", "shch", "a", "d", "soft">>)
KW_naimenovanie == ru(<<"n", "a", "i", "m", "e", "n", "o", "v", "a", "n", "i", "e">>)
KW_kolichestvo == ru(<<"k", "o", "l", "i", "ch", "e", "s", "t", "v", "o">>)
KW_kol_vo == ru(<<"k", "o", "l">>) \o <<"-">> \o ru(<<"v", "o">>)
KW_kol == ru(<<"k", "o", "l">>)
KW_ed == ru(<<"e", "d">>)
KW_poz == ru(<<"p", "o", "z">>)
KW_oboznachenie == ru(<<"o", "b", "o", "z", "n", "a", "ch", "e", "n", "i", "e">>)
KW_marka == ru(<<"m", "a", "r", "k", "a">>)
KW_sht == ru(<<"sh", "t">>)
KW_tip_pola == ru(<<"t", "i", "p">>) \o <<" ">> \o ru(<<"p", "o", "l", "a">>)
KW_pol == ru(<<"p", "o", "l">>)
KW_dannye_elementov ==
    ru(<<"d", "a", "n", "n", "y", "e">>) \o <<" ">>
    \o ru(<<"eh", "l", "e", "m", "e", "n", "t", "o", "v">>)
KW_tip_pokrytiya ==
    ru(<<"t", "i", "p">>) \o <<" ">> \o ru(<<"p", "o", "k", "r", "y", "t", "i", "ya">>)
KW_pokryt == ru(<<"p", "o", "k", "r", "y", "t">>)
KW_naznachenie == ru(<<"n", "a", "z", "n", "a", "ch", "e", "n", "i", "e">>)

\* h.some(x => x.includes(kw))
some(h, kw) == \E k \in DOMAIN h : includes(h[k], kw)

\* const h = table.headers.map(s => s.toLowerCase().trim())
lowerHeaders(hs) == [k \in DOMAIN hs |-> Trim(toLowerCase(hs[k]))]

\* mutant of classifyTable_h: the spec_elements rule tried before the
\* material_qty rules
classifyTable_h_specFirst(h) ==
    LET joined == Join(h, <<" ">>)
    IN  IF some(h, KW_izm) /\ (some(h, KW_podp) \/ some(h, KW_data))
        THEN "change_log"
        ELSE IF (some(h, KW_no_pom) \/ some(h, KW_nomer_pom)) /\ some(h, KW_ploshchad)
        THEN "room_schedule"
        ELSE IF /\ some(h, KW_poz)
                /\ (some(h, KW_oboznachenie) \/ some(h, KW_naimenovanie))
                /\ some(h, KW_kol)
        THEN "spec_elements"
        ELSE IF /\ some(h, KW_naimenovanie)
                /\ (some(h, KW_kolichestvo) \/ some(h, KW_kol_vo) \/ some(h, KW_kol))
                /\ (some(h, KW_ed) \/ some(h, KW_izm))
        THEN "material_qty"
        ELSE IF some(h, KW_naimenovanie) /\ some(h, KW_kolichestvo)
        THEN "material_qty"
        ELSE IF some(h, KW_marka) /\ (some(h, KW_kol) \/ some(h, KW_sht))
        THEN "element_spec"
        ELSE IF \/ includes(joined, KW_tip_pola)
                \/ (some(h, KW_pol) /\ some(h, KW_dannye_elementov))
        THEN "floor_spec"
        ELSE IF \/ includes(joined, KW_tip_pokrytiya)
                \/ (includes(joined, KW_pokryt) /\ some(h, KW_dannye_elementov))
        THEN "roof_spec"
        ELSE IF some(h, KW_poz) /\ (some(h, KW_naimenovanie) \/ some(h, KW_naznachenie))
        THEN "spec_elements"
        ELSE "unknown"

\* the body of classifyTable over the lower-cased, trimmed headers h
classifyTable_h(h) ==
    LET joined == Join(h, <<" ">>)
    IN  IF some(h, KW_izm) /\ (some(h, KW_podp) \/ some(h, KW_data))
        THEN "change_log"
        ELSE IF (some(h, KW_no_pom) \/ some(h, KW_nomer_pom)) /\ some(h, KW_ploshchad)
        THEN "room_schedule"
        ELSE IF /\ some(h, KW_naimenovanie)
                /\ (some(h, KW_kolichestvo) \/ some(h, KW_kol_vo) \/ some(h, KW_kol))
                /\ (some(h, KW_ed) \/ some(h, KW_izm))
        THEN "material_qty"
        ELSE IF some(h, KW_naimenovanie) /\ some(h, KW_kolichestvo)
        THEN "material_qty"
        ELSE IF /\ some(h, KW_poz)
                /\ (some(h, KW_oboznachenie) \/ some(h, KW_naimenovanie))
                /\ some(h, KW_kol)
        THEN "spec_elements"
        ELSE IF some(h, KW_marka) /\ (some(h, KW_kol) \/ some(h, KW_sht))
        THEN "element_spec"
        ELSE IF \/ includes(joined, KW_tip_pola)
                \/ (some(h, KW_pol) /\ some(h, KW_dannye_elementov))
        THEN "floor_spec"
        ELSE IF \/ includes(joined, KW_tip_pokrytiya)
                \/ (includes(joined, KW_pokryt) /\ some(h, KW_dannye_elementov))
        THEN "roof_spec"
        ELSE IF some(h, KW_poz) /\ (some(h, KW_naimenovanie) \/ some(h, KW_naznachenie))
        THEN "spec_elements"
        ELSE "unknown"

\* classifyTable(table), of table.headers
classifyTable(hs) == classifyTable_h(lowerHeaders(hs))

isExtractableCategory(cat) == cat /= "change_log" /\ cat /= "room_schedule"

\* classifyTable is called on the table headers
Classify ==
    /\ category = Null
    /\ category' = Some(classifyTable(headers))
    /\ UNCHANGED headers
    /\ UNCHANGED notClassifierVars

ClassifierNext == Classify

(***************************************************************************)
(* The tables classified: header rows of at most MaxHeaders cells taken    *)
(* from HEADER_CELLS in their order or in the reverse order, and the       *)
(* header rows the specification gives as examples.                        *)
(***************************************************************************)
Cap(s) == <<"RU_" \o s[1]>> \o ru(Tail(s))

H_Izm == Cap(<<"i", "z", "m">>) \o <<".">>
H_Podpis == Cap(<<"p", "o", "d", "p", "i", "s", "soft">>)
H_Data == Cap(<<"d", "a", "t", "a">>)
H_Poz == Cap(<<"p", "o", "z">>) \o <<".">>
H_Oboznachenie == Cap(<<"o", "b", "o", "z", "n", "a", "ch", "e", "n", "i", "e">>)
H_Marka == Cap(<<"m", "a", "r", "k", "a">>)
H_Naimenovanie == Cap(<<"n", "a", "i", "m", "e", "n", "o", "v", "a", "n", "i", "e">>)
H_KolVo == Cap(<<"k", "o", "l">>) \o <<"-">> \o ru(<<"v", "o">>)
H_Kolichestvo == Cap(<<"k", "o", "l", "i", "ch", "e", "s", "t", "v", "o">>)
H_EdIzm == Cap(<<"e", "d">>) \o <<".">> \o ru(<<"i", "z", "m">>) \o <<".">>
H_NoPom == <<"numero", " ">> \o ru(<<"p", "o", "m">>) \o <<".">>
H_Ploshchad == Cap(<<"p", "l", "o", "shch", "a", "d", "soft">>)
H_TipPola == Cap(<<"t", "i", "p">>) \o <<" ">> \o ru(<<"p", "o", "l", "a">>)
H_Tip == Cap(<<"t", "i", "p">>)
H_Pola == Cap(<<"p", "o", "l", "a">>)
H_Dannye == Cap(<<"d", "a", "n", "n", "y", "e">>) \o <<" ">>
            \o ru(<<"eh", "l", "e", "m", "e", "n", "t", "o", "v">>)
H_TipPokrytiya ==
    Cap(<<"t", "i", "p">>) \o <<" ">> \o ru(<<"p", "o", "k", "r", "y", "t", "i", "ya">>)
H_Pokrytie == Cap(<<"p", "o", "k", "r", "y", "t", "i", "e">>)
H_Naznachenie == Cap(<<"n", "a", "z", "n", "a", "ch", "e", "n", "i", "e">>)
H_Sht == Cap(<<"sh", "t">>) \o <<".">>
H_Primechanie == Cap(<<"p", "r", "i", "m", "e", "ch", "a", "n", "i", "e">>)

HEADER_CELLS ==
    <<H_Izm, H_Podpis, H_Data, H_Poz, H_Oboznachenie, H_Marka, H_Naimenovanie,
      H_KolVo, H_Kolichestvo, H_EdIzm, H_NoPom, H_Ploshchad, H_TipPola, H_Tip,
      H_Pola, H_Dannye, H_TipPokrytiya, H_Pokrytie, H_Naznachenie, H_Sht,
      H_Primechanie>>

\* the header rows the specification classifies by name
EXAMPLE_change_log == <<H_Izm, H_Podpis, H_Data>>
EXAMPLE_material_qty == <<H_Naimenovanie, H_KolVo, H_EdIzm>>
EXAMPLE_spec_elements == <<H_Poz, H_Oboznachenie, H_Naimenovanie, H_KolVo>>
EXAMPLE_element_spec == <<H_Marka, H_KolVo>>
EXAMPLE_unknown == <<H_Primechanie>>

\* the increasing index sequences of at most n indices from lo on
RECURSIVE IncreasingSeqs(_, _, _)
IncreasingSeqs(lo, hi, n) ==
    IF n = 0 THEN {<<>>}
    ELSE {<<>>} \cup
         UNION {{<<k>> \o t : t \in IncreasingSeqs(k + 1, hi, n - 1)} : k \in lo..hi}

Reverse(s) == [k \in DOMAIN s |-> s[Len(s) + 1 - k]]

HeaderRows ==
    LET idx == IncreasingSeqs(1, Len(HEADER_CELLS), MaxHeaders) \ {<<>>}
        rows == {[k \in DOMAIN t |-> HEADER_CELLS[t[k]]] : t \in idx}
    IN  rows \cup {Reverse(r) : r \in rows}
        \cup {EXAMPLE_change_log, EXAMPLE_material_qty, EXAMPLE_spec_elements,
              EXAMPLE_element_spec, EXAMPLE_unknown}

ClassifierInit ==
    /\ headers \in HeaderRows
    /\ category = Null

(***************************************************************************)
(* Properties of classifyTable.                                            *)
(***************************************************************************)
\* rule n of the specification's ordered list, on lower-cased headers h
SpecRule(n, h) ==
    CASE n = 1 -> some(h, KW_izm) /\ (some(h, KW_podp) \/ some(h, KW_data))
      [] n = 2 -> (some(h, KW_no_pom) \/ some(h, KW_nomer_pom))
                  /\ some(h, KW_ploshchad)
      [] n = 3 -> /\ some(h, KW_naimenovanie)
                  /\ (some(h, KW_kolichestvo) \/ some(h, KW_kol_vo)
                      \/ some(h, KW_kol))
                  /\ (some(h, KW_ed) \/ some(h, KW_izm))
      [] n = 4 -> some(h, KW_naimenovanie) /\ some(h, KW_kolichestvo)
      [] n = 5 -> /\ some(h, KW_poz)
                  /\ (some(h, KW_oboznachenie) \/ some(h, KW_naimenovanie))
                  /\ some(h, KW_kol)
      [] n = 6 -> some(h, KW_marka) /\ (some(h, KW_kol) \/ some(h, KW_sht))
      [] n = 7 -> \/ includes(Join(h, <<" ">>), KW_tip_pola)
                  \/ (some(h, KW_pol) /\ some(h, KW_dannye_elementov))
      [] n = 8 -> \/ includes(Join(h, <<" ">>), KW_tip_pokrytiya)
                  \/ /\ includes(Join(h, <<" ">>), KW_pokryt)
                     /\ some(h, KW_dannye_elementov)
      [] n = 9 -> some(h, KW_poz)
                  /\ (some(h, KW_naimenovanie) \/ some(h, KW_naznachenie))

SpecRuleCategory ==
    <<"change_log", "room_schedule", "material_qty", "material_qty",
      "spec_elements", "element_spec", "floor_spec", "roof_spec", "spec_elements">>

\* the category of the first rule that h satisfies, unknown when none
FirstMatch(h) ==
    LET sat == {n \in 1..9 : SpecRule(n, h)}
    IN  IF sat = {} THEN "unknown" ELSE SpecRuleCategory[Min(sat)]

Classified == category /= Null

\* C4: classifyTable returns the category of the first rule, in the order 1
\* to 9, that the lower-cased headers satisfy, and unknown when none does;
\* an earlier rule is never overridden by a later one (change_log before
\* material_qty, material_qty before spec_elements), and the five header
\* rows of the specification classify as change_log, material_qty,
\* spec_elements, element_spec and unknown.
C4_FirstMatchWins ==
    Classified =>
        LET h == lowerHeaders(headers)
        IN  /\ category[1] = FirstMatch(h)
            /\ SpecRule(1, h) /\ (SpecRule(3, h) \/ SpecRule(4, h))
                   => category[1] = "change_log"
            /\ ~SpecRule(1, h) /\ ~SpecRule(2, h)
               /\ (SpecRule(3, h) \/ SpecRule(4, h)) /\ SpecRule(5, h)
                   => category[1] = "material_qty"
            /\ headers = EXAMPLE_change_log => category[1] = "change_log"
            /\ headers = EXAMPLE_material_qty => category[1] = "material_qty"
            /\ headers = EXAMPLE_spec_elements => category[1] = "spec_elements"
            /\ headers = EXAMPLE_element_spec => category[1] = "element_spec"
            /\ headers = EXAMPLE_unknown => category[1] = "unknown"

\* C4 witness: headers that satisfy a material_qty rule and the
\* spec_elements rule have been classified
C4_Witness ==
    /\ Classified
    /\ SpecRule(4, lowerHeaders(headers))
    /\ SpecRule(5, lowerHeaders(headers))
    /\ ~SpecRule(1, lowerHeaders(headers))
    /\ category[1] = "material_qty"

\* C4 witness: headers that satisfy the change_log rule and a material_qty
\* rule have been classified
C4_WitnessChangeLog ==
    /\ Classified
    /\ SpecRule(1, lowerHeaders(headers))
    /\ SpecRule(3, lowerHeaders(headers))
    /\ category[1] = "change_log"

(***************************************************************************)
(* canonical.ts                                                            *)
(***************************************************************************)
\* RU_TO_LAT, keyed by the name of the lower-case Cyrillic letter
RU_TO_LAT_byName ==
    [x \in RuLetters |->
        CASE x = "a" -> <<"a">>        [] x = "b" -> <<"b">>
          [] x = "v" -> <<"v">>        [] x = "g" -> <<"g">>
          [] x = "d" -> <<"d">>        [] x = "e" -> <<"e">>
          [] x = "yo" -> <<"y", "o">>  [] x = "zh" -> <<"z", "h">>
          [] x = "z" -> <<"z">>        [] x = "i" -> <<"i">>
          [] x = "j" -> <<"y">>        [] x = "k" -> <<"k">>
          [] x = "l" -> <<"l">>        [] x = "m" -> <<"m">>
          [] x = "n" -> <<"n">>        [] x = "o" -> <<"o">>
          [] x = "p" -> <<"p">>        [] x = "r" -> <<"r">>
          [] x = "s" -> <<"s">>        [] x = "t" -> <<"t">>
          [] x = "u" -> <<"u">>        [] x = "f" -> <<"f">>
          [] x = "kh" -> <<"k", "h">>  [] x = "ts" -> <<"t", "s">>
          [] x = "ch" -> <<"c", "h">>  [] x = "sh" -> <<"s", "h">>
          [] x = "shch" -> <<"s", "h", "c", "h">>
          [] x = "hard" -> <<>>        [] x = "y" -> <<"y">>
          [] x = "soft" -> <<>>        [] x = "eh" -> <<"e">>
          [] x = "yu" -> <<"y", "u">>  [] x = "ya" -> <<"y", "a">>]

RU_TO_LAT ==
    [c \in {"ru_" \o x : x \in RuLetters} |->
        RU_TO_LAT_byName[CHOOSE x \in RuLetters : c = "ru_" \o x]]

\* RU_TO_LAT[char] ?? char
translitChar(c) == IF c \in DOMAIN RU_TO_LAT THEN RU_TO_LAT[c] ELSE <<c>>

RECURSIVE translitAll(_)
translitAll(s) ==
    IF s = <<>> THEN <<>> ELSE translitChar(Head(s)) \o translitAll(Tail(s))

transliterate(text) == translitAll(toLowerCase(text))

AlnumLower == LatinLower \cup Digits

\* .replace(/[^a-z0-9]+/g, '_')
RECURSIVE replaceNonAlnumRuns(_)
replaceNonAlnumRuns(s) ==
    IF s = <<>> THEN <<>>
    ELSE IF Head(s) \in AlnumLower THEN <<Head(s)>> \o replaceNonAlnumRuns(Tail(s))
    ELSE IF Len(s) >= 2 /\ s[2] \notin AlnumLower THEN replaceNonAlnumRuns(Tail(s))
    ELSE <<"_">> \o replaceNonAlnumRuns(Tail(s))

RECURSIVE stripLeadingUnderscores(_)
stripLeadingUnderscores(s) ==
    IF s /= <<>> /\ Head(s) = "_" THEN stripLeadingUnderscores(Tail(s)) ELSE s

RECURSIVE stripTrailingUnderscores(_)
stripTrailingUnderscores(s) ==
    IF s /= <<>> /\ s[Len(s)] = "_"
    THEN stripTrailingUnderscores(SubSeq(s, 1, Len(s) - 1)) ELSE s

\* .replace(/^_+|_+$/g, '')
trimUnderscores(s) == stripTrailingUnderscores(stripLeadingUnderscores(s))

\* .replace(/_+/g, '_')
RECURSIVE collapseUnderscores(_)
collapseUnderscores(s) ==
    IF s = <<>> THEN <<>>
    ELSE IF Head(s) = "_" /\ Len(s) >= 2 /\ s[2] = "_"
    THEN collapseUnderscores(Tail(s))
    ELSE <<Head(s)>> \o collapseUnderscores(Tail(s))

\* mutant of slugify: the trimming of leading and trailing underscores left out
slugify_noTrim(text) == collapseUnderscores(replaceNonAlnumRuns(transliterate(text)))

slugify(text) ==
    collapseUnderscores(trimUnderscores(replaceNonAlnumRuns(transliterate(text))))

\* the length of the whitespace run at the head of s
RECURSIVE SpaceRun(_)
SpaceRun(s) ==
    IF s /= <<>> /\ Head(s) \in WhiteSpace THEN 1 + SpaceRun(Tail(s)) ELSE 0

\* s.replace(/\s*<phrase>/gi, ''), phrase in lower case and not beginning
\* with white space
RECURSIVE removePhrase(_, _)
removePhrase(s, phrase) ==
    IF s = <<>> THEN <<>>
    ELSE LET w == SpaceRun(s)
         IN  IF /\ w + Len(phrase) <= Len(s)
                /\ toLowerCase(SubSeq(s, w + 1, w + Len(phrase))) = phrase
             THEN removePhrase(DropFirst(s, w + Len(phrase) + 1), phrase)
             ELSE <<Head(s)>> \o removePhrase(Tail(s), phrase)

QuoteChars == {"\"", "laquo", "raquo"}

\* s.replace(/["«»]/g, '')
removeQuotes(s) == SelectSeq(s, LAMBDA c : c \notin QuoteChars)

PHRASE_analog == ru(<<"a", "n", "a", "l", "o", "g">>)
PHRASE_ili_analog == ru(<<"i", "l", "i">>) \o <<" ">> \o PHRASE_analog
PHRASE_ili_analog_paren == <<"(">> \o PHRASE_ili_analog \o <<")">>

generateCanonicalKey(nm) ==
    LET cleaned ==
            Trim(removeQuotes(
                removePhrase(
                    removePhrase(removePhrase(nm, PHRASE_ili_analog_paren),
                                 PHRASE_ili_analog),
                    PHRASE_analog)))
    IN  slugify(cleaned)

\* the argument of the next call: the name, then the previous result
NextArg(out) == IF out = <<>> THEN name[1] ELSE out[Len(out)]

\* generateCanonicalKey is called, first on the name and then on its result
CallGenerateCanonicalKey ==
    /\ name /= Null
    /\ Len(keyOut) < 2
    /\ keyOut' = Append(keyOut, generateCanonicalKey(NextArg(keyOut)))
    /\ UNCHANGED <<name, slugOut>>
    /\ UNCHANGED notCanonicalVars

\* slugify is called, first on the name and then on its result
CallSlugify ==
    /\ name /= Null
    /\ Len(slugOut) < 2
    /\ slugOut' = Append(slugOut, slugify(NextArg(slugOut)))
    /\ UNCHANGED <<name, keyOut>>
    /\ UNCHANGED notCanonicalVars

CanonicalNext == CallGenerateCanonicalKey \/ CallSlugify

(***************************************************************************)
(* The names keyed: every concatenation of at most MaxFragments fragments  *)
(* of NameFragments.                                                       *)
(***************************************************************************)
F_kirpich == Cap(<<"k", "i", "r", "p", "i", "ch">>) \o <<" ", "RU_m", "1">>
F_space == <<" ">>
F_ili_analog_paren == PHRASE_ili_analog_paren
F_ILI_ANALOG == RU(<<"i", "l", "i">>) \o <<" ">> \o RU(<<"a", "n", "a", "l", "o", "g">>)
F_ili == ru(<<"i", "l", "i">>)
F_analog == PHRASE_analog
F_quote == <<"\"">>
F_laquo == <<"laquo">>
F_underscore == <<"_">>
F_dash == <<"-">>
F_SHCH == <<"RU_shch">>
F_soft == <<"ru_soft">>
F_M == <<"M">>
F_2 == <<"2">>

NameFragments ==
    {F_kirpich, F_space, F_ili_analog_paren, F_ILI_ANALOG, F_ili, F_analog,
     F_quote, F_laquo, F_underscore, F_dash, F_SHCH, F_soft, F_M, F_2}

RECURSIVE Concat(_)
Concat(ss) == IF ss = <<>> THEN <<>> ELSE Head(ss) \o Concat(Tail(ss))

Names == {Concat(fs) : fs \in SeqsUpTo(NameFragments, MaxFragments)} \cup {<<>>}

CanonicalInit ==
    /\ name \in {Some(n) : n \in Names}
    /\ keyOut = <<>>
    /\ slugOut = <<>>

(***************************************************************************)
(* Properties of generateCanonicalKey and slugify.                         *)
(***************************************************************************)
\* only a-z, 0-9 and single underscores, none leading, none trailing
IsSlug(s) ==
    /\ \A k \in DOMAIN s : s[k] \in AlnumLower \cup {"_"}
    /\ s /= <<>> => s[1] /= "_" /\ s[Len(s)] /= "_"
    /\ \A k \in 1..Len(s) - 1 : ~(s[k] = "_" /\ s[k + 1] = "_")

\* C5: generateCanonicalKey applied to its own result returns that result,
\* slugify applied to its own result returns that result, and every result
\* consists of a-z, 0-9 and single underscores with no leading or trailing
\* underscore.
C5_Idempotent ==
    /\ Len(keyOut) = 2 => keyOut[2] = keyOut[1]
    /\ Len(slugOut) = 2 => slugOut[2] = slugOut[1]
    /\ \A k \in DOMAIN keyOut : IsSlug(keyOut[k])
    /\ \A k \in DOMAIN slugOut : IsSlug(slugOut[k])

\* C5 witness: a name with a noise phrase was keyed twice, the key is not
\* the name, holds an underscore, and slugify gave another result
C5_Witness ==
    /\ Len(keyOut) = 2
    /\ Len(slugOut) = 2
    /\ keyOut[1] /= name[1]
    /\ keyOut[1] /= slugOut[1]
    /\ \E k \in DOMAIN keyOut[1] : keyOut[1][k] = "_"

(***************************************************************************)
(* extraction.ts: mergeResults.  A MaterialFactItem is a record; quantity  *)
(* is null or a number.                                                    *)
(***************************************************************************)
DigitChar == <<"0", "1", "2", "3", "4", "5", "6", "7", "8", "9">>

\* the decimal digits of a natural number
RECURSIVE numberToString(_)
numberToString(n) ==
    IF n < 10 THEN <<DigitChar[n + 1]>>
    ELSE numberToString(n \div 10) \o <<DigitChar[(n % 10) + 1]>>

\* a number is mant * 10^exp with mant not divisible by 10 (0 is mant 0,
\* exp 0)
RECURSIVE Number(_, _)
Number(m, e) ==
    IF m = 0 THEN [mant |-> 0, exp |-> 0]
    ELSE IF m % 10 = 0 THEN Number(m \div 10, e + 1)
    ELSE [mant |-> m, exp |-> e]

RECURSIVE Zeros(_)
Zeros(n) == IF n <= 0 THEN <<>> ELSE <<"0">> \o Zeros(n - 1)

\* Number::toString(q), the text of a number in a template literal: with k
\* digits and the decimal point after digit n, plain notation for
\* -6 < n <= 21 and exponential notation otherwise
NumberToString(q) ==
    LET neg == q.mant < 0
        digits == numberToString(IF neg THEN 0 - q.mant ELSE q.mant)
        k == Len(digits)
        n == k + q.exp
        e == n - 1
        body ==
            IF q.mant = 0 THEN <<"0">>
            ELSE IF k <= n /\ n <= 21 THEN digits \o Zeros(n - k)
            ELSE IF 0 < n /\ n <= 21
            THEN SubSeq(digits, 1, n) \o <<".">> \o SubSeq(digits, n + 1, k)
            ELSE IF -6 < n /\ n <= 0 THEN <<"0", ".">> \o Zeros(0 - n) \o digits
            ELSE (IF k = 1 THEN digits
                  ELSE <<Head(digits), ".">> \o Tail(digits))
                 \o <<"e", IF e < 0 THEN "-" ELSE "+">>
                 \o numberToString(IF e < 0 THEN 0 - e ELSE e)
    IN  IF neg THEN <<"-">> \o body ELSE body

dedupKey(item) ==
    LET nm == Trim(toLowerCase(item.raw_name))
        qty == IF item.quantity /= Null THEN NumberToString(item.quantity[1])
               ELSE <<>>
        unit == Trim(toLowerCase(IF item.unit /= Null THEN item.unit[1] ELSE <<>>))
    IN  nm \o <<"|">> \o qty \o <<"|">> \o unit

\* one of the two loops of mergeResults: st is [seen, merged]
RECURSIVE mergeLoop(_, _)
mergeLoop(items, st) ==
    IF items = <<>> THEN st
    ELSE LET key == dedupKey(Head(items))
         IN  mergeLoop(Tail(items),
                       IF key \notin st.seen
                       THEN [seen |-> st.seen \cup {key},
                             merged |-> Append(st.merged, Head(items))]
                       ELSE st)

\* mutant of mergeResults: the LLM items merged before the rule-based ones
mergeResults_llmFirst(rb, llm) ==
    mergeLoop(rb, mergeLoop(llm, [seen |-> {}, merged |-> <<>>])).merged

mergeResults(rb, llm) ==
    mergeLoop(llm, mergeLoop(rb, [seen |-> {}, merged |-> <<>>])).merged

\* mergeResults is called on the two item lists of a block
Merge ==
    /\ merged = Null
    /\ ruleBased /= Null
    /\ merged' = Some(mergeResults(ruleBased[1], llmItems[1]))
    /\ UNCHANGED <<ruleBased, llmItems>>
    /\ UNCHANGED notMergeVars

MergeNext == Merge

(***************************************************************************)
(* The item lists merged: at most MaxItems items of MergeItems on either   *)
(* side.                                                                   *)
(***************************************************************************)
N_Kirpich == Cap(<<"k", "i", "r", "p", "i", "ch">>)
N_kirpich_sp == <<" ">> \o ru(<<"k", "i", "r", "p", "i", "ch">>) \o <<" ">>
N_Kirpichi == Cap(<<"k", "i", "r", "p", "i", "ch", "i">>)
N_Kirpich_keram ==
    N_Kirpich \o <<" ">> \o ru(<<"k", "e", "r", "a", "m", "i", "ch", "e", "s", "k", "i", "j">>)
U_sht == ru(<<"sh", "t">>)
U_SHT_sp == RU(<<"sh", "t">>) \o <<" ">>

Item(nm, cn, q, u) ==
    [raw_name |-> nm, canonical_name |-> cn, quantity |-> q, unit |-> u]

QTY_100 == Number(100, 0)
QTY_200 == Number(200, 0)

ITEM_kirpich_100_sht == Item(N_Kirpich, Some(N_Kirpich), Some(QTY_100), Some(U_sht))
ITEM_same_other_canonical ==
    Item(N_Kirpich, Some(N_Kirpich_keram), Some(QTY_100), Some(U_sht))
ITEM_other_casing == Item(N_kirpich_sp, Some(N_Kirpich), Some(QTY_100), Some(U_SHT_sp))
ITEM_other_spelling == Item(N_Kirpichi, Some(N_Kirpich), Some(QTY_100), Some(U_sht))
ITEM_other_quantity == Item(N_Kirpich, Some(N_Kirpich), Some(QTY_200), Some(U_sht))
ITEM_no_quantity == Item(N_Kirpich, Null, Null, Null)
ITEM_empty_unit == Item(N_Kirpich, Null, Null, Some(<<>>))

MergeItems ==
    {ITEM_kirpich_100_sht, ITEM_same_other_canonical, ITEM_other_casing,
     ITEM_other_spelling, ITEM_other_quantity, ITEM_no_quantity, ITEM_empty_unit}

ItemLists == {<<>>} \cup SeqsUpTo(MergeItems, MaxItems)

MergeInit ==
    /\ ruleBased \in {Some(l) : l \in ItemLists}
    /\ llmItems \in {Some(l) : l \in ItemLists}
    /\ merged = Null

(***************************************************************************)
(* Properties of mergeResults.                                             *)
(***************************************************************************)
\* the dedup key as specified: lower-cased trimmed raw_name | quantity as
\* numeric string, empty if null | lower-cased trimmed unit, empty if null
SpecKey(item) ==
    Join(<<Trim(toLowerCase(item.raw_name)),
           IF item.quantity = Null THEN <<>> ELSE NumberToString(item.quantity[1]),
           IF item.unit = Null THEN <<>> ELSE Trim(toLowerCase(item.unit[1]))>>,
         <<"|">>)

\* the items of s that no earlier item of s equals in key, in order
RECURSIVE FirstPerKey(_, _)
FirstPerKey(s, k) ==
    IF k > Len(s) THEN <<>>
    ELSE IF \E j \in 1..k - 1 : SpecKey(s[j]) = SpecKey(s[k])
    THEN FirstPerKey(s, k + 1)
    ELSE <<s[k]>> \o FirstPerKey(s, k + 1)

MergeDone == merged /= Null

\* a and b differ in raw_name only, and not just in casing or outer space
DifferInSpelling(a, b) ==
    /\ Trim(toLowerCase(a.raw_name)) /= Trim(toLowerCase(b.raw_name))
    /\ [a EXCEPT !.raw_name = b.raw_name] = b

DifferInQuantity(a, b) ==
    a.quantity /= b.quantity /\ [a EXCEPT !.quantity = b.quantity] = b

\* C6: mergeResults returns the rule-based items in order followed by the LLM
\* items in order, keeping the first item of each dedup key: an LLM item with
\* the key of a rule-based item is dropped even when canonical_name or the
\* casing of the name differs, items that differ in raw_name spelling or in
\* quantity are both kept (each key has its own item in the result), no two
\* items of the result share a key, and empty inputs give an empty result.
C6_MergeDedup ==
    MergeDone =>
        LET all == ruleBased[1] \o llmItems[1]
            res == merged[1]
        IN  /\ res = FirstPerKey(all, 1)
            /\ \A i, j \in DOMAIN res : i /= j => SpecKey(res[i]) /= SpecKey(res[j])
            /\ \A r \in DOMAIN ruleBased[1] : \A l \in DOMAIN llmItems[1] :
                   SpecKey(ruleBased[1][r]) = SpecKey(llmItems[1][l])
                       => \A k \in DOMAIN res :
                              res[k] = llmItems[1][l] => \E q \in DOMAIN ruleBased[1] :
                                  ruleBased[1][q] = res[k]
            /\ \A i, j \in DOMAIN all :
                   DifferInSpelling(all[i], all[j]) \/ DifferInQuantity(all[i], all[j])
                       => \E k, m \in DOMAIN res :
                              /\ k /= m
                              /\ SpecKey(res[k]) = SpecKey(all[i])
                              /\ SpecKey(res[m]) = SpecKey(all[j])
            /\ all = <<>> => res = <<>>

\* C6 witness: an LLM item that differs from a rule-based item in
\* canonical_name only was dropped, and an LLM item of another quantity kept
C6_Witness ==
    /\ MergeDone
    /\ ruleBased[1] = <<ITEM_kirpich_100_sht>>
    /\ llmItems[1] = <<ITEM_same_other_canonical, ITEM_other_quantity>>
    /\ merged[1] = <<ITEM_kirpich_100_sht, ITEM_other_quantity>>

\* C6 witness: empty inputs were merged
C6_WitnessEmpty == MergeDone /\ ruleBased[1] = <<>> /\ llmItems[1] = <<>>

(***************************************************************************)
(* extraction.ts: llmExtractBatch, with callLlmJson of llm.ts.  The batch  *)
(* is the sequence of the blockDbId of its blocks; the content of a reply  *)
(* is a record: json tells whether JSON.parse accepts it, items is the     *)
(* "items" of the parsed object, Null when it has none.                    *)
(***************************************************************************)
\* a value is truthy: neither null nor the empty string
truthy(v) == v /= Null /\ v[1] /= <<>>

\* ExtractionResponseSchema.parse succeeds on the parsed reply
ExtractionResponseSchema(parsed) ==
    /\ parsed.items /= Null
    /\ \A k \in DOMAIN parsed.items[1] : Len(parsed.items[1][k].raw_name) >= 1

\* mutant of validItems: only a null source_snippet is filtered out
validItems_nonNull(items) ==
    SelectSeq(items, LAMBDA item : item.source_snippet /= Null)

\* validated.items.filter(item => item.source_snippet)
validItems(items) == SelectSeq(items, LAMBDA item : truthy(item.source_snippet))

\* the canonical_key of a valid item after the loop that fills missing keys
ensureCanonicalKey(item) ==
    IF ~truthy(item.canonical_key) /\ truthy(item.canonical_name)
    THEN [item EXCEPT !.canonical_key = Some(generateCanonicalKey(item.canonical_name[1]))]
    ELSE IF ~truthy(item.canonical_key) /\ item.raw_name /= <<>>
    THEN [item EXCEPT !.canonical_key = Some(generateCanonicalKey(item.raw_name))]
    ELSE item

\* the try block after callLlmJson returned: the items set for the block,
\* Null when JSON.parse or the schema throws
itemsOfResponse(content) ==
    IF ~content.json THEN Null
    ELSE IF ~ExtractionResponseSchema(content) THEN Null
    ELSE LET valid == validItems(content.items[1])
         IN  Some([k \in DOMAIN valid |-> ensureCanonicalKey(valid[k])])

\* Map.prototype.set
MapSet(mp, key, value) ==
    [k \in DOMAIN mp \cup {key} |-> IF k = key THEN value ELSE mp[k]]

\* mutant of progressArgs: the loop index reported as the completed count
progressArgs_index(idx, total) == <<idx, total>>

\* the arguments of onProgress in iteration idx (counted from 0)
progressArgs(idx, total) == <<idx + 1, total>>

\* the end of a loop iteration: results.set, onProgress, i++; the attempt
\* counter of callLlmJson is gone with the call (the iteration is logged
\* with the number of requests its call sent)
EndIteration(items, response) ==
    /\ attempt' = 0
    /\ results' = MapSet(results, blocks[batchI + 1], items)
    /\ iterations' = Append(iterations,
                            [blockDbId |-> blocks[batchI + 1],
                             items |-> items, response |-> response,
                             requests |-> attempt + 1])
    /\ progressCalls' = Append(progressCalls, progressArgs(batchI, Len(blocks)))
    /\ callLog' = Append(callLog, <<"resolved", batchI + 1>>)
    /\ batchI' = batchI + 1
    /\ batchPc' = "loop"

\* mutant of AtLoopHead: the next call is started while one is in flight
AtLoopHead_noAwait == batchPc \in {"loop", "fetching"}

\* the for loop is at its head: no call of the batch is awaited
AtLoopHead == batchPc = "loop"

(***************************************************************************)
(* The batches and the replies of the model.                               *)
(***************************************************************************)
BlockDbIds == {"b1", "b2", "b3"}

Batches == {<<>>} \cup SeqsUpTo(BlockDbIds, MaxBlocks)

LlmItem(nm, cn, ck, sn) ==
    [raw_name |-> nm, canonical_name |-> cn, canonical_key |-> ck,
     source_snippet |-> sn]

LLM_kirpich == LlmItem(N_Kirpich, Some(N_Kirpich_keram), Null, Some(N_Kirpich))
LLM_keyed == LlmItem(N_Kirpichi, Null, Some(<<"k", "i", "r", "p", "i", "c", "h", "i">>),
                     Some(N_Kirpichi))
LLM_no_names == LlmItem(N_Kirpich, Some(<<>>), Some(<<>>), Some(N_Kirpich))
LLM_null_snippet == LlmItem(N_Kirpich_keram, Null, Null, Null)
LLM_empty_snippet == LlmItem(N_Kirpich_keram, Null, Null, Some(<<>>))
LLM_empty_name == LlmItem(<<>>, Null, Null, Some(N_Kirpich))

NOT_JSON == [json |-> FALSE, items |-> Null]
RESP_empty == [json |-> TRUE, items |-> Some(<<>>)]
RESP_mixed ==
    [json |-> TRUE,
     items |-> Some(<<LLM_kirpich, LLM_null_snippet, LLM_keyed, LLM_empty_snippet,
                   LLM_no_names>>)]
RESP_no_snippets ==
    [json |-> TRUE, items |-> Some(<<LLM_null_snippet, LLM_empty_snippet>>)]
RESP_no_items == [json |-> TRUE, items |-> Null]
RESP_empty_name == [json |-> TRUE, items |-> Some(<<LLM_kirpich, LLM_empty_name>>)]

Responses ==
    {NOT_JSON, RESP_empty, RESP_mixed, RESP_no_snippets, RESP_no_items,
     RESP_empty_name}

(***************************************************************************)
(* The steps of llmExtractBatch.  A step runs from one await to the next.  *)
(***************************************************************************)
\* loop head, i < blocks.length: callLlmJson is called and sends its first
\* request
StartCall ==
    /\ AtLoopHead
    /\ batchI < Len(blocks)
    /\ attempt' = 0
    /\ outstanding' = outstanding + 1
    /\ callLog' = Append(callLog, <<"started", batchI + 1>>)
    /\ batchPc' = "fetching"
    /\ UNCHANGED <<blocks, batchI, results, iterations, progressCalls>>
    /\ UNCHANGED notBatchVars

\* the request is answered with content: callLlmJson returns, and the rest
\* of the iteration runs
FetchReturns ==
    /\ batchPc = "fetching"
    /\ \E content \in Responses :
           LET items == itemsOfResponse(content)
           IN  EndIteration(IF items = Null THEN <<>> ELSE items[1], Some(content))
    /\ outstanding' = outstanding - 1
    /\ UNCHANGED blocks
    /\ UNCHANGED notBatchVars

\* the first request fails (transport error, abort at the timeout, error
\* status, no content): callLlmJson waits before its second attempt
FetchFailsFirst ==
    /\ batchPc = "fetching"
    /\ attempt = 0
    /\ outstanding' = outstanding - 1
    /\ batchPc' = "backoff"
    /\ UNCHANGED <<blocks, batchI, results, attempt, callLog, iterations,
                   progressCalls>>
    /\ UNCHANGED notBatchVars

\* the wait is over: the second request is sent
Retry ==
    /\ batchPc = "backoff"
    /\ attempt' = 1
    /\ outstanding' = outstanding + 1
    /\ batchPc' = "fetching"
    /\ UNCHANGED <<blocks, batchI, results, callLog, iterations, progressCalls>>
    /\ UNCHANGED notBatchVars

\* the second request fails: callLlmJson throws, the catch block runs
FetchFailsLast ==
    /\ batchPc = "fetching"
    /\ attempt = 1
    /\ EndIteration(<<>>, Null)
    /\ outstanding' = outstanding - 1
    /\ UNCHANGED blocks
    /\ UNCHANGED notBatchVars

\* loop head, i = blocks.length: results is returned
BatchReturn ==
    /\ AtLoopHead
    /\ batchI = Len(blocks)
    /\ batchPc' = "done"
    /\ UNCHANGED <<blocks, batchI, results, attempt, outstanding, callLog,
                   iterations, progressCalls>>
    /\ UNCHANGED notBatchVars

BatchNext ==
    \/ StartCall
    \/ FetchReturns
    \/ FetchFailsFirst
    \/ Retry
    \/ FetchFailsLast
    \/ BatchReturn

BatchInit ==
    /\ blocks \in Batches
    /\ batchI = 0
    /\ results = <<>>
    /\ batchPc = "loop"
    /\ attempt = 0
    /\ outstanding = 0
    /\ callLog = <<>>
    /\ iterations = <<>>
    /\ progressCalls = <<>>

(***************************************************************************)
(* Properties of llmExtractBatch.                                          *)
(***************************************************************************)
BatchDone == batchPc = "done"

BatchRunning == batchPc /= "idle"

\* block n of the batch got no items because its call or its reply failed
BlockFailed(n) ==
    \/ iterations[n].response = Null
    \/ ~iterations[n].response[1].json
    \/ iterations[n].response[1].items = Null
    \/ \E k \in DOMAIN iterations[n].response[1].items[1] :
           iterations[n].response[1].items[1][k].raw_name = <<>>

DistinctIds == \A k, n \in DOMAIN blocks : k /= n => blocks[k] /= blocks[n]

\* C7: the blocks are processed in input order, one at a time: the call for a
\* block is started only when the call for the block before it has resolved,
\* so the calls started and resolved alternate as started 1, resolved 1,
\* started 2, ..., and at most one request is outstanding at any moment.
C7_OneCallAtATime ==
    BatchRunning =>
        /\ outstanding \in {0, 1}
        /\ \A p \in DOMAIN callLog :
               callLog[p] = <<IF p % 2 = 1 THEN "started" ELSE "resolved",
                              (p + 1) \div 2>>
        /\ Len(callLog) \in {2 * batchI, 2 * batchI + 1}
        /\ outstanding = 1 => Len(callLog) = 2 * batchI + 1
        /\ \A n \in DOMAIN iterations : iterations[n].blockDbId = blocks[n]
        /\ BatchDone => batchI = Len(blocks) /\ outstanding = 0

\* C7 witness: a batch of three blocks is done, the second having failed
C7_Witness ==
    /\ BatchDone
    /\ Len(blocks) = 3
    /\ DistinctIds
    /\ iterations[2].response = Null
    /\ ~BlockFailed(1)
    /\ Len(callLog) = 6

\* C8: a failed block gets an empty list and the batch goes on; on return
\* the map holds exactly one entry for every block of the batch, each entry
\* written exactly once and holding what its own block produced.
C8_OneEntryPerBlock ==
    BatchDone =>
        /\ Len(iterations) = Len(blocks)
        /\ \A n \in DOMAIN iterations : BlockFailed(n) => iterations[n].items = <<>>
        /\ Cardinality(DOMAIN results) = Len(blocks)
        /\ \A id \in DOMAIN results :
               Cardinality({n \in DOMAIN iterations : iterations[n].blockDbId = id}) = 1
        /\ \A n \in DOMAIN iterations : results[blocks[n]] = iterations[n].items

\* C8, for the batches whose blocks have pairwise distinct blockDbId
C8_DistinctIds == DistinctIds => C8_OneEntryPerBlock

\* C8: two blocks of one blockDbId were processed, the first with items, the
\* second failing: the map holds one empty entry for the two
C8_Witness ==
    /\ BatchDone
    /\ Len(blocks) = 2
    /\ blocks[1] = blocks[2]
    /\ iterations[1].items /= <<>>
    /\ iterations[2].response = Null
    /\ results[blocks[1]] = <<>>

\* C9: the progress callback is called exactly once after each block, failed
\* or not, the k-th call with (k, total): the counts are 1, 2, ..., total, the
\* total is the batch length in every call, and the last call is (total, total).
C9_Progress ==
    BatchRunning =>
        /\ Len(progressCalls) = batchI
        /\ Len(progressCalls) = Len(iterations)
        /\ \A k \in DOMAIN progressCalls : progressCalls[k] = <<k, Len(blocks)>>
        /\ BatchDone => Len(progressCalls) = Len(blocks)
        /\ BatchDone /\ blocks /= <<>>
               => progressCalls[Len(progressCalls)] = <<Len(blocks), Len(blocks)>>

\* C9 witness: three blocks, one failed and one not, were reported
C9_Witness ==
    /\ BatchDone
    /\ Len(blocks) = 3
    /\ BlockFailed(1)
    /\ ~BlockFailed(3)
    /\ progressCalls = <<<<1, 3>>, <<2, 3>>, <<3, 3>>>>

\* the items of a reply that have a source_snippet, in the reply's order
RECURSIVE WithSnippet(_)
WithSnippet(items) ==
    IF items = <<>> THEN <<>>
    ELSE (IF Head(items).source_snippet \in {Null, Some(<<>>)} THEN <<>>
          ELSE <<Head(items)>>) \o WithSnippet(Tail(items))

SameButKey(a, b) == [a EXCEPT !.canonical_key = Null] = [b EXCEPT !.canonical_key = Null]

\* C10: every item of the map has a non-null, non-empty source_snippet, and
\* the list stored for a block whose reply was valid is the reply's items
\* without those of null or empty source_snippet, the others in their order.
C10_SourceSnippet ==
    /\ \A id \in DOMAIN results : \A k \in DOMAIN results[id] :
           /\ results[id][k].source_snippet /= Null
           /\ Len(results[id][k].source_snippet[1]) > 0
    /\ \A n \in DOMAIN iterations :
           ~BlockFailed(n) =>
               LET kept == WithSnippet(iterations[n].response[1].items[1])
                   stored == iterations[n].items
               IN  /\ Len(stored) = Len(kept)
                   /\ \A k \in DOMAIN kept : SameButKey(stored[k], kept[k])
    /\ \A id \in DOMAIN results :
           \E n \in DOMAIN iterations :
               /\ iterations[n].blockDbId = id
               /\ results[id] = iterations[n].items
               /\ \A later \in n + 1..Len(iterations) : iterations[later].blockDbId /= id

\* C10 witness: a reply of five items, one of null and one of empty
\* source_snippet, was stored as the three others
C10_Witness ==
    /\ BatchDone
    /\ Len(blocks) = 1
    /\ iterations[1].response = Some(RESP_mixed)
    /\ Len(results[blocks[1]]) = 3
    /\ SameButKey(results[blocks[1]][1], LLM_kirpich)
    /\ SameButKey(results[blocks[1]][2], LLM_keyed)
    /\ SameButKey(results[blocks[1]][3], LLM_no_names)

(***************************************************************************)
(* parser.ts: buildBlock on the content lines of one block.                *)
(***************************************************************************)
TL_ROW_AB == <<"|", "a", "|", "b", "|">>
TL_ROW_CD == <<"|", " ", "c", " ", "|", "d", "|">>
TL_SEPARATOR == <<"|", "-", "|", "-", "|">>
TL_HEADING_S == <<"#", "#", "#", "#", " ", "S">>
TL_HEADING_T == <<"#", "#", "#", "#", "#", "#", " ", "T", " ">>
TL_HEADING_BLANK == <<"#", "#", "#", "#", " ", " ">>
TL_PLAIN == <<"a", "b">>

TableLines ==
    {TL_ROW_AB, TL_ROW_CD, TL_SEPARATOR, TL_HEADING_S, TL_HEADING_T,
     TL_HEADING_BLANK, TL_PLAIN}

TABLES_UID == <<"A", "-", "1", "-", "B">>

\* buildBlock is called by finalizeBlock with the lines of a block
CallBuildBlock ==
    /\ builtBlock = Null
    /\ \E type \in {BLOCK_TEXT, BLOCK_IMAGE} :
           builtBlock' = Some(buildBlock(TABLES_UID, type, blockLines))
    /\ UNCHANGED blockLines
    /\ UNCHANGED notTablesVars

TablesNext == CallBuildBlock

TablesInit ==
    /\ blockLines \in {<<>>} \cup SeqsUpTo(TableLines, MaxContentLines)
    /\ builtBlock = Null

(***************************************************************************)
(* Properties of buildBlock and parseTables.                               *)
(***************************************************************************)
BlockBuilt == builtBlock /= Null

IsRow(k) ==
    k \in DOMAIN blockLines
    /\ blockLines[k] \in {TL_ROW_AB, TL_ROW_CD, TL_SEPARATOR}
IsHeading(k) ==
    k \in DOMAIN blockLines
    /\ blockLines[k] \in {TL_HEADING_S, TL_HEADING_T, TL_HEADING_BLANK}

HeadingText(line) ==
    IF line = TL_HEADING_S THEN <<"S">>
    ELSE IF line = TL_HEADING_T THEN <<"T">> ELSE <<>>

\* the first lines of the maximal runs of table rows
RunStarts == {k \in DOMAIN blockLines : IsRow(k) /\ ~IsRow(k - 1)}

\* the number of lines of the run that starts at k
RunLength(k) == Min({e \in k..Len(blockLines) + 1 : ~IsRow(e)}) - k

\* the runs of at least two lines, in source order
TableRuns == SortedSeq({k \in RunStarts : RunLength(k) >= 2})

\* the nearest heading line before line k, 0 when there is none
HeadingBefore(k) ==
    IF \E h \in 1..k - 1 : IsHeading(h)
    THEN CHOOSE h \in 1..k - 1 : IsHeading(h) /\ \A g \in h + 1..k - 1 : ~IsHeading(g)
    ELSE 0

\* C19: each table of a block has as sectionContext the text of the nearest
\* level 4-6 heading before the table in the block, and null when no heading
\* precedes it: a heading after a table never becomes that table's context.
C19_SectionContext ==
    BlockBuilt =>
        /\ Len(builtBlock[1].tables) = Len(TableRuns)
        /\ \A t \in DOMAIN builtBlock[1].tables :
               builtBlock[1].tables[t].sectionContext =
                   (IF HeadingBefore(TableRuns[t]) = 0 THEN Null
                    ELSE Some(HeadingText(blockLines[HeadingBefore(TableRuns[t])])))

\* C19: a table followed by a heading was extracted with that heading as its
\* sectionContext
C19_Witness ==
    /\ BlockBuilt
    /\ blockLines = <<TL_ROW_AB, TL_ROW_CD, TL_HEADING_S>>
    /\ Len(builtBlock[1].tables) = 1
    /\ builtBlock[1].tables[1].sectionContext = Some(<<"S">>)

\* C19, for the tables that a heading precedes
C19_ContextOfPrecedingHeading ==
    BlockBuilt =>
        \A t \in DOMAIN builtBlock[1].tables :
            HeadingBefore(TableRuns[t]) /= 0 =>
                builtBlock[1].tables[t].sectionContext =
                    Some(HeadingText(blockLines[HeadingBefore(TableRuns[t])]))

CellsOf(line) ==
    IF line = TL_ROW_AB THEN <<<<"a">>, <<"b">>>>
    ELSE IF line = TL_ROW_CD THEN <<<<"c">>, <<"d">>>>
    ELSE <<<<"-">>, <<"-">>>>

\* the lines k+from .. k+n-1 of the run of n lines at k that keep(line) holds for
RunRowsFrom(k, from, keep(_)) ==
    LET idx == SortedSeq({j \in k + from..k + RunLength(k) - 1 : keep(blockLines[j])})
    IN  [r \in DOMAIN idx |-> CellsOf(blockLines[idx[r]])]

AnyLine(line) == TRUE
NotSeparator(line) == line /= TL_SEPARATOR

\* C20 as stated: a run of one table-row line gives no table; a run of
\* n >= 2 lines gives one table, its headers the cells of row 0 and its data
\* rows all rows after row 0, or after row 1 when row 1 is a separator, so
\* n-1 or n-2 data rows; the runs of a block give its tables in source order.
C20_RunsToTablesAsStated ==
    BlockBuilt =>
        /\ Len(builtBlock[1].tables) = Len(TableRuns)
        /\ \A t \in DOMAIN builtBlock[1].tables :
               LET k == TableRuns[t]
                   from == IF blockLines[k + 1] = TL_SEPARATOR THEN 2 ELSE 1
                   table == builtBlock[1].tables[t]
               IN  /\ table.headers = CellsOf(blockLines[k])
                   /\ table.rows = RunRowsFrom(k, from, AnyLine)
                   /\ Len(table.rows) = RunLength(k) - from

\* C20 amended: the same, the data rows being the rows after row 0 that are
\* not separator rows: n-1 data rows less the separator rows among them.
C20_RunsToTables ==
    BlockBuilt =>
        /\ Len(builtBlock[1].tables) = Len(TableRuns)
        /\ \A t \in DOMAIN builtBlock[1].tables :
               LET k == TableRuns[t]
                   table == builtBlock[1].tables[t]
               IN  /\ table.headers = CellsOf(blockLines[k])
                   /\ table.rows = RunRowsFrom(k, 1, NotSeparator)
                   /\ Len(table.rows) =
                          RunLength(k) - 1
                          - Cardinality({j \in k + 1..k + RunLength(k) - 1 :
                                            blockLines[j] = TL_SEPARATOR})

\* C20 witness: a run of one line, then a run of three lines with a
\* separator as its last row, gave one table of one data row
C20_Witness ==
    /\ BlockBuilt
    /\ blockLines = <<TL_ROW_AB, TL_PLAIN, TL_ROW_AB, TL_ROW_CD, TL_SEPARATOR>>
    /\ Len(builtBlock[1].tables) = 1
    /\ builtBlock[1].tables[1].rows = <<CellsOf(TL_ROW_CD)>>

\* C20 witness: two runs gave two tables in source order
C20_WitnessTwoTables ==
    /\ BlockBuilt
    /\ blockLines = <<TL_ROW_AB, TL_SEPARATOR, TL_PLAIN, TL_ROW_CD, TL_ROW_AB>>
    /\ Len(builtBlock[1].tables) = 2
    /\ builtBlock[1].tables[1].rows = <<>>
    /\ builtBlock[1].tables[2].headers = CellsOf(TL_ROW_CD)

(***************************************************************************)
(* extraction.ts: parseRussianNumber.  NaN is Null; the texts of the model *)
(* have no "Infinity".                                                     *)
(***************************************************************************)
\* the length of the run of digits of s that starts at position k
RECURSIVE DigitRunLen(_, _)
DigitRunLen(s, k) ==
    IF k <= Len(s) /\ s[k] \in Digits THEN 1 + DigitRunLen(s, k + 1) ELSE 0

\* parseFloat(s): the value of the longest prefix of s that is a decimal
\* literal and the length of that prefix; value Null (NaN) when there is none
parseFloat_prefix(s) ==
    LET signLen == IF s /= <<>> /\ s[1] \in {"+", "-"} THEN 1 ELSE 0
        sign == IF signLen = 1 /\ s[1] = "-" THEN -1 ELSE 1
        nInt == DigitRunLen(s, signLen + 1)
        afterInt == signLen + 1 + nInt
        hasDot == afterInt <= Len(s) /\ s[afterInt] = "."
        nFrac == IF hasDot THEN DigitRunLen(s, afterInt + 1) ELSE 0
        afterMant == IF hasDot THEN afterInt + 1 + nFrac ELSE afterInt
        hasE == afterMant <= Len(s) /\ s[afterMant] \in {"e", "E"}
        eSignLen == IF hasE /\ afterMant + 1 <= Len(s) /\ s[afterMant + 1] \in {"+", "-"}
                    THEN 1 ELSE 0
        eSign == IF eSignLen = 1 /\ s[afterMant + 1] = "-" THEN -1 ELSE 1
        nExp == IF hasE THEN DigitRunLen(s, afterMant + 1 + eSignLen) ELSE 0
        expStart == afterMant + 1 + eSignLen
        expValue == IF nExp > 0
                    THEN eSign * parseInt(SubSeq(s, expStart, expStart + nExp - 1))
                    ELSE 0
        digits == SubSeq(s, signLen + 1, afterInt - 1)
                  \o (IF hasDot THEN SubSeq(s, afterInt + 1, afterInt + nFrac) ELSE <<>>)
    IN  IF nInt + nFrac = 0 THEN [value |-> Null, consumed |-> 0]
        ELSE [value |-> Some(Number(sign * parseInt(digits), expValue - nFrac)),
              consumed |-> IF nExp > 0 THEN expStart + nExp - 1 ELSE afterMant - 1]

parseFloat(s) == parseFloat_prefix(s).value

\* s.replace(/\s/g, '')
removeWhiteSpace(s) == SelectSeq(s, LAMBDA c : c \notin WhiteSpace)

\* s.replace(',', '.'): the first comma only
RECURSIVE replaceFirstComma(_)
replaceFirstComma(s) ==
    IF s = <<>> THEN <<>>
    ELSE IF Head(s) = "," THEN <<".">> \o Tail(s)
    ELSE <<Head(s)>> \o replaceFirstComma(Tail(s))

\* the string handed to parseFloat
cleanedNumber(text) == replaceFirstComma(removeWhiteSpace(Trim(text)))

parseRussianNumber(text) ==
    IF text = <<>> \/ Trim(text) = <<>> \/ Trim(text) = <<"-">> THEN Null
    ELSE parseFloat(cleanedNumber(text))

CallParseRussianNumber ==
    /\ ~numCalled
    /\ numCalled' = TRUE
    /\ numResult' = parseRussianNumber(numText)
    /\ UNCHANGED numText
    /\ UNCHANGED notNumberVars

NumberNext == CallParseRussianNumber

(***************************************************************************)
(* The texts parsed: the spec's examples and every string of at most       *)
(* MaxNumLen symbols of NumberChars.                                       *)
(***************************************************************************)
NumberChars == {"0", "1", "2", " ", ",", ".", "-", "e", "x"}

NUM_1692_9 == <<"1", " ", "6", "9", "2", ",", "9">>
NUM_202_6 == <<"2", "0", "2", ",", "6">>

NumberTexts == {<<>>, NUM_1692_9, NUM_202_6} \cup SeqsUpTo(NumberChars, MaxNumLen)

NumberInit ==
    /\ numText \in NumberTexts
    /\ numCalled = FALSE
    /\ numResult = Null

(***************************************************************************)
(* Properties of parseRussianNumber.                                       *)
(***************************************************************************)
AllDigits(s) == \A k \in DOMAIN s : s[k] \in Digits

\* the positions of symbol c in s
PositionsOf(s, c) == {k \in DOMAIN s : s[k] = c}

\* s is digit groups separated by single spaces
DigitGroups(s) ==
    /\ s /= <<>>
    /\ \A k \in DOMAIN s : s[k] \in Digits \cup {" "}
    /\ s[1] /= " " /\ s[Len(s)] /= " "
    /\ \A k \in 1..Len(s) - 1 : ~(s[k] = " " /\ s[k + 1] = " ")

\* text is digit groups with an optional decimal comma and fraction digits
RussianNumeral(text) ==
    \/ DigitGroups(text)
    \/ \E c \in DOMAIN text :
           /\ text[c] = ","
           /\ DigitGroups(SubSeq(text, 1, c - 1))
           /\ c < Len(text)
           /\ AllDigits(SubSeq(text, c + 1, Len(text)))

\* the number a Russian numeral denotes
RussianNumeralValue(text) ==
    LET c == IF PositionsOf(text, ",") = {} THEN Len(text) + 1
             ELSE Min(PositionsOf(text, ","))
        whole == SelectSeq(SubSeq(text, 1, c - 1), LAMBDA d : d /= " ")
        fraction == SubSeq(text, c + 1, Len(text))
    IN  Number(parseInt(whole \o fraction), 0 - Len(fraction))

\* m is digits with at most one dot among them
IsMantissa(m) ==
    /\ \A k \in DOMAIN m : m[k] \in Digits \cup {"."}
    /\ Cardinality(PositionsOf(m, ".")) <= 1
    /\ \E k \in DOMAIN m : m[k] \in Digits

IsExponent(x) ==
    LET d == IF x /= <<>> /\ x[1] \in {"+", "-"} THEN Tail(x) ELSE x
    IN  d /= <<>> /\ AllDigits(d)

\* s is, as a whole, a decimal number: sign, mantissa, exponent part
IsNumberLiteral(s) ==
    LET u == IF s /= <<>> /\ s[1] \in {"+", "-"} THEN Tail(s) ELSE s
        es == PositionsOf(u, "e") \cup PositionsOf(u, "E")
    IN  IF es = {} THEN IsMantissa(u)
        ELSE /\ IsMantissa(SubSeq(u, 1, Min(es) - 1))
             /\ IsExponent(SubSeq(u, Min(es) + 1, Len(u)))

\* C16: parseRussianNumber gives null for the empty string and for '-', the
\* number denoted for digit groups separated by spaces with an optional
\* decimal comma, and null for every text that, white space removed and the
\* decimal comma replaced by a dot, is not entirely a number.
C16_RussianNumber ==
    numCalled =>
        /\ numText \in {<<>>, <<"-">>} => numResult = Null
        /\ RussianNumeral(numText) => numResult = Some(RussianNumeralValue(numText))
        /\ ~IsNumberLiteral(cleanedNumber(numText)) => numResult = Null

\* C16: '1x' was parsed and gave the number 1
C16_Witness ==
    /\ numCalled
    /\ numText = <<"1", "x">>
    /\ numResult = Some(Number(1, 0))

\* C16, the null cases and the numerals alone
C16_NullAndNumerals ==
    numCalled =>
        /\ numText \in {<<>>, <<"-">>} => numResult = Null
        /\ RussianNumeral(numText) => numResult = Some(RussianNumeralValue(numText))
        /\ numText = NUM_1692_9 => numResult = Some([mant |-> 16929, exp |-> -1])
        /\ numText = NUM_202_6 => numResult = Some([mant |-> 2026, exp |-> -1])

\* C16, the texts for which null is returned: those without a numeric prefix
C16_NullWithoutNumericPrefix ==
    numCalled =>
        (numResult = Null <=>
            \/ Trim(numText) \in {<<>>, <<"-">>}
            \/ \A n \in 1..Len(cleanedNumber(numText)) :
                   ~IsNumberLiteral(SubSeq(cleanedNumber(numText), 1, n)))

(***************************************************************************)
(* extraction.ts: the rule-based extractors.  A column index counts from 1 *)
(* and NoColumn stands for -1.                                             *)
(***************************************************************************)
NoColumn == 0

KW_opisanie == ru(<<"o", "p", "i", "s", "a", "n", "i", "e">>)
KW_primechanie == ru(<<"p", "r", "i", "m", "e", "ch", "a", "n", "i", "e">>)
KW_ed_izm == ru(<<"e", "d">>) \o <<".">> \o ru(<<"i", "z", "m">>)
KW_ed_dot == ru(<<"e", "d">>) \o <<".">>
KW_gost == ru(<<"g", "o", "s", "t">>)
KW_gost_latin == <<"g", "o", "s", "t">>

\* h.findIndex(col => col.includes(kw))
findIndex_includes(h, kw) ==
    IF \E k \in DOMAIN h : includes(h[k], kw)
    THEN CHOOSE k \in DOMAIN h :
            /\ includes(h[k], kw)
            /\ \A n \in 1..k - 1 : ~includes(h[n], kw)
    ELSE NoColumn

\* the loop of findColumnIndex over the keywords, in their order
RECURSIVE findColumnIndex_loop(_, _)
findColumnIndex_loop(h, keywords) ==
    IF keywords = <<>> THEN NoColumn
    ELSE LET idx == findIndex_includes(h, Head(keywords))
         IN  IF idx /= NoColumn THEN idx
             ELSE findColumnIndex_loop(h, Tail(keywords))

\* mutant of findColumnIndex: the leftmost header that contains any keyword
findColumnIndex_leftmost(hs, keywords) ==
    IF \E k \in DOMAIN hs : \E p \in DOMAIN keywords :
           includes(lowerHeaders(hs)[k], keywords[p])
    THEN Min({k \in DOMAIN hs : \E p \in DOMAIN keywords :
                 includes(lowerHeaders(hs)[k], keywords[p])})
    ELSE NoColumn

findColumnIndex(hs, keywords) == findColumnIndex_loop(lowerHeaders(hs), keywords)

\* the keyword variants of the fields of each extractor, in the order of the
\* arguments of its findColumnIndex calls
MATERIAL_QTY_KEYWORDS ==
    [nameIdx |-> <<KW_naimenovanie>>,
     qtyIdx |-> <<KW_kolichestvo, KW_kol_vo, KW_kol>>,
     unitIdx |-> <<KW_ed_izm, KW_ed_dot, KW_ed>>]

ELEMENT_SPEC_KEYWORDS ==
    [markIdx |-> <<KW_marka>>,
     descIdx |-> <<KW_opisanie, KW_naimenovanie>>,
     qtyIdx |-> <<KW_kol_vo, KW_kol, KW_sht>>,
     noteIdx |-> <<KW_primechanie>>]

SPEC_ELEMENTS_KEYWORDS ==
    [posIdx |-> <<KW_poz>>,
     designationIdx |-> <<KW_oboznachenie>>,
     nameIdx |-> <<KW_naimenovanie, KW_naznachenie>>,
     qtyIdx |-> <<KW_kol_vo, KW_kol, KW_kolichestvo>>,
     noteIdx |-> <<KW_primechanie>>]

\* the findColumnIndex calls that open an extractor: the column of each field
findColumns(table, keywords) ==
    [f \in DOMAIN keywords |-> findColumnIndex(table.headers, keywords[f])]

\* row[idx]?.trim(): undefined (Null) when the row has no such cell
cellTrim(row, idx) == IF idx \in DOMAIN row THEN Some(Trim(row[idx])) ELSE Null

\* idx !== -1 ? row[idx]?.trim() || null : null
cellOrNull(row, idx) ==
    IF idx /= NoColumn /\ truthy(cellTrim(row, idx)) THEN cellTrim(row, idx) ELSE Null

\* idx !== -1 ? parseRussianNumber(row[idx]) : null
cellNumber(row, idx) ==
    IF idx /= NoColumn /\ idx \in DOMAIN row THEN parseRussianNumber(row[idx]) ELSE Null

\* the longest run of symbols of class cls that starts at position k of s
RECURSIVE RunLen(_, _, _)
RunLen(s, k, cls) ==
    IF k <= Len(s) /\ s[k] \in cls THEN 1 + RunLen(s, k + 1, cls) ELSE 0

\* /(?:ГОСТ|GOST)\s*(?:Р\s*)?[\d.\-]+(?:\s*[\-–]\s*\d+)?/i matched at
\* position k of text: the position after the match, 0 when there is none
GOST_RE_at(text, k) ==
    LET low == toLowerCase(text)
        word == PrefixAt(low, k, KW_gost) \/ PrefixAt(low, k, KW_gost_latin)
        a == k + 4 + RunLen(text, k + 4, WhiteSpace)
        withR == a <= Len(text) /\ low[a] = "ru_r"
        b == a + 1 + RunLen(text, a + 1, WhiteSpace)
        cls == Digits \cup {".", "-"}
        start == IF withR /\ RunLen(text, b, cls) > 0 THEN b ELSE a
        c == start + RunLen(text, start, cls)
        d == c + RunLen(text, c, WhiteSpace)
        e == d + 1 + RunLen(text, d + 1, WhiteSpace)
        tail == /\ d <= Len(text)
                /\ text[d] \in {"-", "endash"}
                /\ RunLen(text, e, Digits) > 0
    IN  IF ~word \/ c = start THEN 0
        ELSE IF tail THEN e + RunLen(text, e, Digits)
        ELSE c

\* text.match(GOST_RE): the first match, null when there is none
extractGost(text) ==
    IF \E k \in DOMAIN text : GOST_RE_at(text, k) /= 0
    THEN LET k == CHOOSE k \in DOMAIN text :
                    /\ GOST_RE_at(text, k) /= 0
                    /\ \A n \in 1..k - 1 : GOST_RE_at(text, n) = 0
         IN  Some(SubSeq(text, k, GOST_RE_at(text, k) - 1))
    ELSE Null

buildSnippet(nm, qty, unit) ==
    nm \o (IF qty /= Null THEN <<" ", "|", " ">> \o NumberToString(qty[1]) ELSE <<>>)
       \o (IF truthy(unit) THEN <<" ">> \o unit[1] ELSE <<>>)

CONFIDENCE_0_95 == Number(95, -2)
CONFIDENCE_0_9 == Number(9, -1)

\* /^[A-Za-zА-Яа-я0-9.]+$/
SECTION_HEADER_CLASS ==
    LatinUpper \cup LatinLower \cup Digits \cup {"."}
    \cup {"ru_" \o x : x \in RuLetters \ {"yo"}}
    \cup {"RU_" \o x : x \in RuLetters \ {"yo"}}

SECTION_HEADER_RE(s) == s /= <<>> /\ \A k \in DOMAIN s : s[k] \in SECTION_HEADER_CLASS

\* the item of one row of a material_qty table, Null for a row passed over
materialQtyRow(row, nameIdx, qtyIdx, unitIdx) ==
    LET rawName == cellTrim(row, nameIdx)
        quantity == cellNumber(row, qtyIdx)
        unit == cellOrNull(row, unitIdx)
    IN  IF ~truthy(rawName) THEN Null
        ELSE IF /\ quantity = Null
                /\ ~truthy(unit)
                /\ Len(rawName[1]) < 10
                /\ SECTION_HEADER_RE(rawName[1])
        THEN Null
        ELSE IF Len(rawName[1]) < 3 THEN Null
        ELSE Some([raw_name |-> rawName[1],
                   canonical_name |-> rawName,
                   canonical_key |-> Some(generateCanonicalKey(rawName[1])),
                   quantity |-> quantity,
                   unit |-> unit,
                   mark |-> Null,
                   gost |-> extractGost(rawName[1]),
                   description |-> Null,
                   note |-> Null,
                   source_snippet |-> Some(buildSnippet(rawName[1], quantity, unit)),
                   confidence |-> CONFIDENCE_0_95])

\* the items of the rows, in row order
rowItems(rows, itemOf(_)) == Concat([k \in DOMAIN rows |-> itemOf(rows[k])])

extractMaterialQty(table) ==
    LET col == findColumns(table, MATERIAL_QTY_KEYWORDS)
    IN  IF col.nameIdx = NoColumn THEN <<>>
        ELSE rowItems(table.rows,
                      LAMBDA row : materialQtyRow(row, col.nameIdx, col.qtyIdx,
                                                  col.unitIdx))

\* the item of one row of an element_spec table
elementSpecRow(row, markIdx, descIdx, qtyIdx, noteIdx) ==
    LET mark == cellOrNull(row, markIdx)
        desc == IF descIdx /= NoColumn THEN cellTrim(row, descIdx) ELSE Null
        rawName == IF truthy(desc) THEN desc[1]
                   ELSE IF truthy(mark) THEN mark[1] ELSE <<>>
        quantity == cellNumber(row, qtyIdx)
        note == cellOrNull(row, noteIdx)
    IN  IF rawName = <<>> \/ Len(rawName) < 3 THEN Null
        ELSE Some([raw_name |-> rawName,
                   canonical_name |-> Some(rawName),
                   canonical_key |-> Some(generateCanonicalKey(rawName)),
                   quantity |-> quantity,
                   unit |-> Some(KW_sht),
                   mark |-> mark,
                   gost |-> extractGost(rawName \o <<" ">>
                                        \o (IF truthy(note) THEN note[1] ELSE <<>>)),
                   description |-> IF note /= Some(rawName) THEN note ELSE Null,
                   note |-> Null,
                   source_snippet |-> Some(buildSnippet(rawName, quantity, Some(KW_sht))),
                   confidence |-> CONFIDENCE_0_9])

\* mutant of extractElementSpec: no items without a description column
extractElementSpec_descOnly(table) ==
    LET col == findColumns(table, ELEMENT_SPEC_KEYWORDS)
    IN  IF col.descIdx = NoColumn THEN <<>>
        ELSE rowItems(table.rows,
                      LAMBDA row : elementSpecRow(row, col.markIdx, col.descIdx,
                                                  col.qtyIdx, col.noteIdx))

extractElementSpec(table) ==
    LET col == findColumns(table, ELEMENT_SPEC_KEYWORDS)
    IN  IF col.descIdx = NoColumn /\ col.markIdx = NoColumn THEN <<>>
        ELSE rowItems(table.rows,
                      LAMBDA row : elementSpecRow(row, col.markIdx, col.descIdx,
                                                  col.qtyIdx, col.noteIdx))

\* the item of one row of a spec_elements table
specElementsRow(row, posIdx, designationIdx, primaryNameIdx, qtyIdx, noteIdx) ==
    LET rawName == cellTrim(row, primaryNameIdx)
        mark == cellOrNull(row, posIdx)
        quantity == cellNumber(row, qtyIdx)
        note == cellOrNull(row, noteIdx)
        designation == IF designationIdx /= primaryNameIdx
                       THEN cellOrNull(row, designationIdx) ELSE Null
    IN  IF ~truthy(rawName) \/ Len(rawName[1]) < 3 THEN Null
        ELSE Some([raw_name |-> rawName[1],
                   canonical_name |-> rawName,
                   canonical_key |-> Some(generateCanonicalKey(rawName[1])),
                   quantity |-> quantity,
                   unit |-> Some(KW_sht),
                   mark |-> mark,
                   gost |-> extractGost(
                       rawName[1] \o <<" ">>
                       \o (IF truthy(designation) THEN designation[1] ELSE <<>>)
                       \o <<" ">> \o (IF truthy(note) THEN note[1] ELSE <<>>)),
                   description |-> designation,
                   note |-> note,
                   source_snippet |-> Some(buildSnippet(rawName[1], quantity, Some(KW_sht))),
                   confidence |-> CONFIDENCE_0_9])

extractSpecElements(table) ==
    LET col == findColumns(table, SPEC_ELEMENTS_KEYWORDS)
        primaryNameIdx == IF col.nameIdx /= NoColumn THEN col.nameIdx
                          ELSE col.designationIdx
    IN  IF primaryNameIdx = NoColumn THEN <<>>
        ELSE rowItems(table.rows,
                      LAMBDA row : specElementsRow(row, col.posIdx, col.designationIdx,
                                                   primaryNameIdx, col.qtyIdx,
                                                   col.noteIdx))

\* mutant of tableItems: the other extractable categories are given to
\* extractSpecElements
tableItems_everyExtractable(table) ==
    LET cat == classifyTable(table.headers)
    IN  IF ~isExtractableCategory(cat) THEN <<>>
        ELSE IF cat = "material_qty" THEN extractMaterialQty(table)
        ELSE IF cat = "element_spec" THEN extractElementSpec(table)
        ELSE extractSpecElements(table)

\* the items ruleBasedExtract pushes for one table
tableItems(table) ==
    LET cat == classifyTable(table.headers)
    IN  IF ~isExtractableCategory(cat) THEN <<>>
        ELSE IF cat = "material_qty" THEN extractMaterialQty(table)
        ELSE IF cat = "element_spec" THEN extractElementSpec(table)
        ELSE IF cat = "spec_elements" THEN extractSpecElements(table)
        ELSE <<>>

\* the columns the extractor called for the table finds, null for a table
\* that no extractor is called for
tableColumns(table) ==
    LET cat == classifyTable(table.headers)
    IN  IF cat = "material_qty" THEN Some(findColumns(table, MATERIAL_QTY_KEYWORDS))
        ELSE IF cat = "element_spec" THEN Some(findColumns(table, ELEMENT_SPEC_KEYWORDS))
        ELSE IF cat = "spec_elements"
        THEN Some(findColumns(table, SPEC_ELEMENTS_KEYWORDS))
        ELSE Null

RECURSIVE ruleBasedExtract_loop(_)
ruleBasedExtract_loop(tables) ==
    IF tables = <<>> THEN <<>>
    ELSE tableItems(Head(tables)) \o ruleBasedExtract_loop(Tail(tables))

ruleBasedExtract(block) == ruleBasedExtract_loop(block.tables)

\* ruleBasedExtract is called on the block
CallRuleBasedExtract ==
    /\ exItems = Null
    /\ exBlock /= Null
    /\ exItems' = Some(ruleBasedExtract(exBlock[1]))
    /\ exColumns' = [k \in DOMAIN exBlock[1].tables |->
                         tableColumns(exBlock[1].tables[k])]
    /\ UNCHANGED exBlock
    /\ UNCHANGED notExtractVars

ExtractNext == CallRuleBasedExtract

(***************************************************************************)
(* The blocks handed to ruleBasedExtract: at most MaxTables tables, each   *)
(* one of the tables below (one at least of every category).               *)
(***************************************************************************)
MaxTables == 2

CELL_K6 == <<"K", "6">>
CELL_OK_1 == <<"O", "K", "-", "1">>
CELL_B1 == <<"B", "1">>
CELL_GOST_530 ==
    RU(<<"g", "o", "s", "t">>) \o <<" ", "5", "3", "0", "-", "2", "0", "1", "2">>

ROW_kirpich == <<N_Kirpich_keram, NUM_1692_9, U_sht>>
ROW_kirpichi == <<N_Kirpichi, NUM_202_6, <<>>>>
ROW_section_header == <<CELL_K6, <<>>, <<>>>>
ROW_short_name == <<CELL_B1, <<"1">>, U_sht>>
ROW_empty_name == <<<<>>, <<"2">>, U_sht>>
ROW_name_only == <<N_Kirpich>>

TBL_kirpich ==
    [headers |-> <<H_Naimenovanie, H_Kolichestvo, H_EdIzm>>,
     rows |-> <<ROW_kirpich>>, sectionContext |-> Null]
TBL_material_qty ==
    [headers |-> EXAMPLE_material_qty,
     rows |-> <<ROW_section_header, ROW_kirpichi, ROW_short_name, ROW_empty_name,
                ROW_name_only, ROW_kirpich>>,
     sectionContext |-> Some(<<"S">>)]
TBL_material_no_rows ==
    [headers |-> EXAMPLE_material_qty, rows |-> <<>>, sectionContext |-> Null]
TBL_element_spec ==
    [headers |-> EXAMPLE_element_spec,
     rows |-> <<<<CELL_OK_1, <<"2">>>>, <<CELL_B1, <<"1">>>>, <<CELL_GOST_530>>>>,
     sectionContext |-> Null]
TBL_element_notes ==
    [headers |-> <<H_Marka, H_Sht, H_Primechanie>>,
     rows |-> <<<<CELL_OK_1, <<"1">>, CELL_GOST_530>>, <<CELL_OK_1, <<"-">>, CELL_OK_1>>>>,
     sectionContext |-> Null]
TBL_spec_elements ==
    [headers |-> EXAMPLE_spec_elements,
     rows |-> <<<<<<"1">>, CELL_GOST_530, N_Kirpich_keram, <<"2">>>>,
                <<<<"2">>, <<>>, N_Kirpichi, <<"-">>>>>>,
     sectionContext |-> Null]
TBL_spec_designation ==
    [headers |-> <<H_Poz, H_Oboznachenie, H_KolVo>>,
     rows |-> <<<<<<"1">>, CELL_GOST_530, <<"2">>>>, <<<<"2">>, CELL_B1, <<"1">>>>>>,
     sectionContext |-> Null]
TBL_change_log ==
    [headers |-> <<H_Izm, H_Data, H_Naimenovanie>>,
     rows |-> <<<<<<"1">>, <<"2">>, N_Kirpich_keram>>>>, sectionContext |-> Null]
TBL_room_schedule ==
    [headers |-> <<H_NoPom, H_Naimenovanie, H_Ploshchad>>,
     rows |-> <<<<<<"1">>, N_Kirpich_keram, NUM_202_6>>>>, sectionContext |-> Null]
TBL_floor_spec ==
    [headers |-> <<H_TipPola, H_Naimenovanie>>,
     rows |-> <<<<CELL_OK_1, N_Kirpich_keram>>, <<CELL_B1, N_Kirpichi>>>>,
     sectionContext |-> Null]
TBL_roof_spec ==
    [headers |-> <<H_TipPokrytiya, H_Naimenovanie>>,
     rows |-> <<<<CELL_OK_1, N_Kirpich_keram>>>>, sectionContext |-> Null]
H_Opisanie == Cap(<<"o", "p", "i", "s", "a", "n", "i", "e">>)

\* an element_spec table with a name column left of its description column
TBL_element_described ==
    [headers |-> <<H_Marka, H_Naimenovanie, H_Opisanie, H_KolVo>>,
     rows |-> <<<<CELL_OK_1, N_Kirpichi, N_Kirpich_keram, <<"2">>>>>>,
     sectionContext |-> Null]
\* a material_qty table with a "Кол-во" column left of its two "Количество"
\* columns
TBL_material_two_qty ==
    [headers |-> <<H_Naimenovanie, H_KolVo, H_Kolichestvo, H_EdIzm, H_Kolichestvo>>,
     rows |-> <<<<N_Kirpich_keram, <<"1">>, NUM_202_6, U_sht, <<"2">>>>>>,
     sectionContext |-> Null]
TBL_unknown ==
    [headers |-> <<H_Naimenovanie, H_Primechanie>>,
     rows |-> <<<<N_Kirpich_keram, CELL_GOST_530>>>>, sectionContext |-> Null]

ExtractTables ==
    {TBL_kirpich, TBL_material_qty, TBL_material_no_rows, TBL_element_spec,
     TBL_element_notes, TBL_spec_elements, TBL_spec_designation, TBL_change_log,
     TBL_room_schedule, TBL_floor_spec, TBL_roof_spec, TBL_unknown,
     TBL_element_described, TBL_material_two_qty}

ExtractInit ==
    /\ exBlock \in {Some([tables |-> ts]) :
                        ts \in {<<>>} \cup SeqsUpTo(ExtractTables, MaxTables)}
    /\ exItems = Null
    /\ exColumns = <<>>

(***************************************************************************)
(* Properties of ruleBasedExtract.                                         *)
(***************************************************************************)
ExtractDone == exItems /= Null

RuleCategories == {"material_qty", "element_spec", "spec_elements"}

OtherCategories == {"change_log", "room_schedule", "floor_spec", "roof_spec", "unknown"}

CategoryOf(table) == classifyTable(table.headers)

\* what the extractor of the table's category gives for the table
ExtractorItems(table) ==
    IF CategoryOf(table) = "material_qty" THEN extractMaterialQty(table)
    ELSE IF CategoryOf(table) = "element_spec" THEN extractElementSpec(table)
    ELSE extractSpecElements(table)

\* the items name cells of the rows, one row each, in the order of the rows
RECURSIVE InRowOrder(_, _)
InRowOrder(items, rows) ==
    IF items = <<>> THEN TRUE
    ELSE IF rows = <<>> THEN FALSE
    ELSE IF \E k \in DOMAIN Head(rows) : Trim(Head(rows)[k]) = Head(items).raw_name
    THEN InRowOrder(Tail(items), Tail(rows))
    ELSE InRowOrder(items, Tail(rows))

\* C15: the result of ruleBasedExtract is, table after table in the order
\* of block.tables, the items of each table classified material_qty,
\* element_spec or spec_elements, each table's items in the order of its
\* rows; a table of any other category contributes nothing and a block with
\* no tables gives the empty list.
C15_RuleBasedExtract ==
    ExtractDone =>
        LET tables == exBlock[1].tables
            part == [k \in DOMAIN tables |->
                        IF CategoryOf(tables[k]) \in RuleCategories
                        THEN ExtractorItems(tables[k]) ELSE <<>>]
        IN  /\ \A k \in DOMAIN tables :
                /\ CategoryOf(tables[k]) \in RuleCategories \cup OtherCategories
                /\ InRowOrder(part[k], tables[k].rows)
            /\ exItems[1] = Concat(part)
            /\ (tables = <<>> => exItems[1] = <<>>)

\* a floor_spec table with named rows gave nothing and the material_qty
\* table after it gave its two items in row order
C15_Witness ==
    /\ ExtractDone
    /\ exBlock[1].tables = <<TBL_floor_spec, TBL_material_qty>>
    /\ CategoryOf(TBL_floor_spec) = "floor_spec"
    /\ Len(exItems[1]) = 2
    /\ exItems[1][1].raw_name = N_Kirpichi
    /\ exItems[1][2].raw_name = N_Kirpich_keram

\* the items of an element_spec table come before those of the material_qty
\* table after it
C15_WitnessTableOrder ==
    /\ ExtractDone
    /\ exBlock[1].tables = <<TBL_element_spec, TBL_kirpich>>
    /\ Len(exItems[1]) = 3
    /\ exItems[1][1].raw_name = CELL_OK_1
    /\ exItems[1][3].raw_name = N_Kirpich_keram

\* every category occurs among the tables, and a block with no tables was
\* handled
C15_WitnessNoTables == ExtractDone /\ exBlock[1].tables = <<>> /\ exItems[1] = <<>>

C15_EveryCategory ==
    {CategoryOf(t) : t \in ExtractTables} = RuleCategories \cup OtherCategories

\* the spec's scenario: the one-row table gives one item of quantity
\* 1692.9, unit "шт" and confidence 0.95
C15_Scenario ==
    (ExtractDone /\ exBlock[1].tables = <<TBL_kirpich>>) =>
        /\ Len(exItems[1]) = 1
        /\ exItems[1][1].raw_name = N_Kirpich_keram
        /\ exItems[1][1].quantity = Some(Number(16929, -1))
        /\ exItems[1][1].unit = Some(U_sht)
        /\ exItems[1][1].confidence = Number(95, -2)
        /\ exItems[1][1].source_snippet =
              Some(N_Kirpich_keram \o <<" ", "|", " ", "1", "6", "9", "2", ".", "9", " ">>
                   \o U_sht)

(***************************************************************************)
(* useExtraction.ts: runExtraction.  Every await of a persistence call is  *)
(* one action that takes the call's outcome, the returned { error } or     *)
(* null data included, and runs the code up to the next await.  A Map is   *)
(* the sequence of its entries in insertion order.                         *)
(***************************************************************************)
MapHas(mp, key) == \E k \in DOMAIN mp : mp[k].key = key

MapGet(mp, key) == mp[CHOOSE k \in DOMAIN mp : mp[k].key = key].value

\* Map.prototype.set: a key that is present keeps its place
MapSetOrdered(mp, key, value) ==
    IF MapHas(mp, key)
    THEN [k \in DOMAIN mp |->
            IF mp[k].key = key THEN [key |-> key, value |-> value] ELSE mp[k]]
    ELSE Append(mp, [key |-> key, value |-> value])

\* the id of the doc_blocks record of a block uid
DbIdOf(uid) == <<"i", "d", "-">> \o uid

QUANTITY_UNITS ==
    {ru(<<"sh", "t">>), ru(<<"m">>) \o <<"2">>, ru(<<"m">>) \o <<"3">>,
     ru(<<"m">>) \o <<".">> \o ru(<<"p">>) \o <<".">>, ru(<<"k", "g">>), ru(<<"t">>),
     ru(<<"l">>), ru(<<"k", "o", "m", "p", "l">>)}

\* /\d+[,.]?\d*\s*(шт|м2|м3|м\.п\.|кг|т|л|компл)/i matches at position k
QUANTITY_RE_at(s, k) ==
    \E n1 \in 1..RunLen(s, k, Digits) :
        \E sep \in {0} \cup (IF k + n1 <= Len(s) /\ s[k + n1] \in {",", "."}
                            THEN {1} ELSE {}) :
            \E n2 \in 0..RunLen(s, k + n1 + sep, Digits) :
                \E w \in 0..RunLen(s, k + n1 + sep + n2, WhiteSpace) :
                    \E unit \in QUANTITY_UNITS :
                        PrefixAt(toLowerCase(s), k + n1 + sep + n2 + w, unit)

hasQuantityPattern(content) == \E k \in DOMAIN content : QUANTITY_RE_at(content, k)

hasComplexTables(block) ==
    \E k \in DOMAIN block.tables :
        LET cat == classifyTable(block.tables[k].headers)
        IN  /\ isExtractableCategory(cat)
            /\ cat /= "material_qty" /\ cat /= "element_spec" /\ cat /= "spec_elements"

hasUnknownTables(block) ==
    \E k \in DOMAIN block.tables : classifyTable(block.tables[k].headers) = "unknown"

BlockForExtraction(block, pageNo, dbId) ==
    [block |-> block, pageNo |-> pageNo, blockDbId |-> dbId,
     sectionContext |-> block.sectionTitle]

\* mutant of needsLlm: a block with tables is sent whenever it has tables
needsLlm_everyTable(block, ruleItems) ==
    IF block.hasTable THEN TRUE ELSE hasQuantityPattern(block.content)

\* the block is pushed to blocksNeedingLlm
needsLlm(block, ruleItems) ==
    IF block.hasTable
    THEN hasComplexTables(block) \/ hasUnknownTables(block) \/ ruleItems = <<>>
    ELSE hasQuantityPattern(block.content)

\* the body of the loop of step 3 once dbId is found, ruleItems being the
\* items of ruleBasedExtract (none for a block without tables)
ruleBasedStepOf(st, pageNo, block, dbId, ruleItems) ==
    [rule |-> IF block.hasTable /\ Len(ruleItems) > 0
              THEN MapSetOrdered(st.rule, dbId, ruleItems) ELSE st.rule,
     need |-> IF needsLlm(block, ruleItems)
              THEN Append(st.need, BlockForExtraction(block, pageNo, dbId))
              ELSE st.need]

\* mutant of ruleBasedStep: only the blocks without a record are passed over
ruleBasedStep_everyType(st, pageNo, block, stored) ==
    IF block.uid \notin stored THEN st
    ELSE ruleBasedStepOf(st, pageNo, block, DbIdOf(block.uid),
                         IF block.hasTable THEN ruleBasedExtract(block) ELSE <<>>)

\* one iteration of the loop of step 3 on st = [rule, need]
ruleBasedStep(st, pageNo, block, stored) ==
    IF block.hasError \/ block.type /= BLOCK_TEXT THEN st
    ELSE IF block.uid \notin stored THEN st
    ELSE ruleBasedStepOf(st, pageNo, block, DbIdOf(block.uid),
                         IF block.hasTable THEN ruleBasedExtract(block) ELSE <<>>)

RECURSIVE ruleBasedBlocks(_, _, _, _)
ruleBasedBlocks(st, pageNo, pageBlocks, stored) ==
    IF pageBlocks = <<>> THEN st
    ELSE ruleBasedBlocks(ruleBasedStep(st, pageNo, Head(pageBlocks), stored),
                         pageNo, Tail(pageBlocks), stored)

\* step 3: the loops over parsed.pages and page.blocks
RECURSIVE ruleBasedPages(_, _, _)
ruleBasedPages(st, pgs, stored) ==
    IF pgs = <<>> THEN st
    ELSE ruleBasedPages(ruleBasedBlocks(st, Head(pgs).pageNo, Head(pgs).blocks, stored),
                        Tail(pgs), stored)

\* the rows saveFactsToDb inserts
factRows(blockDbId, items, source) ==
    [k \in DOMAIN items |->
        [block_id |-> blockDbId,
         table_category |-> source,
         item |-> [items[k] EXCEPT
                     !.canonical_name =
                         IF truthy(@) THEN @ ELSE Some(items[k].raw_name),
                     !.canonical_key =
                         IF truthy(@) THEN @
                         ELSE Some(generateCanonicalKey(items[k].raw_name))]]]

\* the key of step 6
ruleKey(item) ==
    Trim(toLowerCase(item.raw_name)) \o <<"|">>
    \o (IF item.quantity /= Null THEN NumberToString(item.quantity[1]) ELSE <<>>)
    \o <<"|">>
    \o toLowerCase(IF truthy(item.unit) THEN item.unit[1] ELSE <<>>)

\* mutant of llmUnique: the merged list saved as it is
llmUnique_merged(ruleItems, llmReply) == mergeResults(ruleItems, llmReply)

\* step 6: the merged items whose key is not the key of a rule-based item
llmUnique(ruleItems, llmReply) ==
    LET ruleKeys == {ruleKey(ruleItems[k]) : k \in DOMAIN ruleItems}
    IN  SelectSeq(mergeResults(ruleItems, llmReply),
                  LAMBDA it : ruleKey(it) \notin ruleKeys)

\* the saves of step 4: one for every entry of ruleBasedResults
ruleSaves(rule) ==
    [k \in DOMAIN rule |->
        [blockDbId |-> rule[k].key, items |-> rule[k].value, source |-> "rule_based"]]

\* mutant of llmSaves: the saves of step 6 are made as rule-based saves
llmSaves_asRuleBased(rule, llmRes) ==
    SelectSeq([k \in DOMAIN llmRes |->
                  [blockDbId |-> llmRes[k].key,
                   items |-> llmUnique(IF MapHas(rule, llmRes[k].key)
                                       THEN MapGet(rule, llmRes[k].key) ELSE <<>>,
                                       llmRes[k].value),
                   source |-> "rule_based"]],
              LAMBDA sv : Len(sv.items) > 0)

\* the saves of step 6: one for every entry of llmResults with LLM-unique
\* items
llmSaves(rule, llmRes) ==
    SelectSeq([k \in DOMAIN llmRes |->
                  [blockDbId |-> llmRes[k].key,
                   items |-> llmUnique(IF MapHas(rule, llmRes[k].key)
                                       THEN MapGet(rule, llmRes[k].key) ELSE <<>>,
                                       llmRes[k].value),
                   source |-> "llm"]],
              LAMBDA sv : Len(sv.items) > 0)

\* an entry of the log of the run
LogEntry(op, ok, block, rows, note) ==
    [op |-> op, ok |-> ok, block |-> block, rows |-> rows, note |-> note]

SetProgressEntry(status) == LogEntry("setProgress", TRUE, <<>>, <<>>, status)

IDLE_PROGRESS ==
    [status |-> "idle", completedBatches |-> 0, totalBatches |-> 0,
     extractedFacts |-> 0, errorMessage |-> Null]

MSG_NOT_FOUND == "Document not found"
MSG_NO_FILE == "Could not download document file"
MSG_NO_BLOCKS == "Could not load blocks"
MSG_SAVE_FAILED == "Failed to save facts: error.message"

\* await supabase.from('documents').update({ status: 'extracting' })
UpdateExtracting ==
    /\ runPc = "start"
    /\ \E ok \in BOOLEAN :
        /\ runDocStatus' = IF ok THEN "extracting" ELSE runDocStatus
        /\ runLog' = Append(runLog, LogEntry("update", ok, <<>>, <<>>, "extracting"))
    /\ runPc' = "delete"
    /\ UNCHANGED <<runParsed, runStored, runFacts, runProgress, runRuleResults,
                   runNeedLlm, runLlmI, runLlmResults, runQueue, runTotalFacts>>
    /\ UNCHANGED notRunVars

\* await supabase.from('material_facts').delete(), then setProgress
DeleteFacts ==
    /\ runPc = "delete"
    /\ \E ok \in BOOLEAN :
        /\ runFacts' = IF ok THEN <<>> ELSE runFacts
        /\ runLog' = runLog \o <<LogEntry("delete", ok, <<>>, <<>>, "material_facts"),
                                 SetProgressEntry("rule_based")>>
    /\ runProgress' = [runProgress EXCEPT !.status = "rule_based",
                                          !.errorMessage = Null]
    /\ runPc' = "loadDoc"
    /\ UNCHANGED <<runParsed, runStored, runDocStatus, runRuleResults, runNeedLlm,
                   runLlmI, runLlmResults, runQueue, runTotalFacts>>
    /\ UNCHANGED notRunVars

\* a select of the run answered: with data the run goes on at pc next,
\* with null it throws the message, the catch block sets the progress and
\* awaits the update of the document status
Select(pc, next, table, message) ==
    /\ runPc = pc
    /\ \E ok \in BOOLEAN :
        IF ok
        THEN /\ runPc' = next
             /\ runLog' = Append(runLog, LogEntry("select", TRUE, <<>>, <<>>, table))
             /\ UNCHANGED runProgress
        ELSE /\ runPc' = "updateError"
             /\ runLog' = runLog \o <<LogEntry("select", FALSE, <<>>, <<>>, table),
                                      SetProgressEntry("error")>>
             /\ runProgress' = [runProgress EXCEPT !.status = "error",
                                                   !.errorMessage = Some(message)]
    /\ UNCHANGED <<runParsed, runStored, runFacts, runDocStatus, runRuleResults,
                   runNeedLlm, runLlmI, runLlmResults, runQueue, runTotalFacts>>
    /\ UNCHANGED notRunVars

LoadDoc == Select("loadDoc", "download", "documents", MSG_NOT_FOUND)

Download == Select("download", "loadBlocks", "storage", MSG_NO_FILE)

LoadBlocks == Select("loadBlocks", "loadPages", "doc_blocks", MSG_NO_BLOCKS)

\* mutant of progressAfterRuleSaves: the status is 'saving' whatever the list
progressAfterRuleSaves_saving(total, need) ==
    [status |-> "saving",
     completedBatches |-> 0, totalBatches |-> Len(need),
     extractedFacts |-> total, errorMessage |-> Null]

\* the progress and the position once the saves of step 4 are done
progressAfterRuleSaves(total, need) ==
    [status |-> IF need = <<>> THEN "saving" ELSE "llm_extracting",
     completedBatches |-> 0, totalBatches |-> Len(need),
     extractedFacts |-> total, errorMessage |-> Null]

logAfterRuleSaves(need) ==
    <<SetProgressEntry("llm_extracting")>>
    \o (IF need = <<>> THEN <<SetProgressEntry("saving")>> ELSE <<>>)

pcAfterRuleSaves(need) == IF need = <<>> THEN "updateDone" ELSE "llm"

\* await of the doc_pages select (null data is taken as no pages and the
\* pages are not used), then step 3 and the code up to the first await of
\* step 4, 5 or 7
LoadPages ==
    /\ runPc = "loadPages"
    /\ \E st \in {ruleBasedPages([rule |-> <<>>, need |-> <<>>], runParsed, runStored)} :
       \E saves \in {ruleSaves(st.rule)} :
           /\ runRuleResults' = st.rule
           /\ runNeedLlm' = st.need
           /\ runQueue' = saves
           /\ runLog' = runLog \o <<LogEntry("select", TRUE, <<>>, <<>>, "doc_pages")>>
                        \o (IF saves = <<>> THEN logAfterRuleSaves(st.need) ELSE <<>>)
           /\ runProgress' = IF saves = <<>> THEN progressAfterRuleSaves(0, st.need)
                             ELSE runProgress
           /\ runPc' = IF saves = <<>> THEN pcAfterRuleSaves(st.need) ELSE "saveRule"
    /\ runTotalFacts' = 0
    /\ runLlmI' = 0
    /\ UNCHANGED <<runParsed, runStored, runFacts, runDocStatus, runLlmResults>>
    /\ UNCHANGED notRunVars

\* await saveFactsToDb(docId, blockDbId, items, 'rule_based') of step 4
SaveRuleBased ==
    /\ runPc = "saveRule"
    /\ LET sv == Head(runQueue)
           rows == factRows(sv.blockDbId, sv.items, sv.source)
           total == runTotalFacts + Len(sv.items)
           last == Tail(runQueue) = <<>>
       IN  \E ok \in BOOLEAN :
            IF ok
            THEN /\ runFacts' = runFacts \o rows
                 /\ runTotalFacts' = total
                 /\ runQueue' = Tail(runQueue)
                 /\ runLog' = runLog \o <<LogEntry("insert", TRUE, sv.blockDbId, rows,
                                                   sv.source)>>
                              \o (IF last THEN logAfterRuleSaves(runNeedLlm) ELSE <<>>)
                 /\ runProgress' = IF last
                                   THEN progressAfterRuleSaves(total, runNeedLlm)
                                   ELSE runProgress
                 /\ runPc' = IF last THEN pcAfterRuleSaves(runNeedLlm) ELSE "saveRule"
            ELSE /\ runLog' = runLog \o <<LogEntry("insert", FALSE, sv.blockDbId, rows,
                                                   sv.source),
                                          SetProgressEntry("error")>>
                 /\ runProgress' = [runProgress EXCEPT
                                      !.status = "error",
                                      !.errorMessage = Some(MSG_SAVE_FAILED)]
                 /\ runPc' = "updateError"
                 /\ UNCHANGED <<runFacts, runTotalFacts, runQueue>>
    /\ UNCHANGED <<runParsed, runStored, runDocStatus, runRuleResults, runNeedLlm,
                   runLlmI, runLlmResults>>
    /\ UNCHANGED notRunVars

\* one iteration of llmExtractBatch resolves: the items of the block (none
\* when the call failed) are set and onProgress is called; after the last
\* one the batch resolves and step 6 runs up to its first await
LlmBlockDone(reply) ==
    /\ runPc = "llm"
    /\ LET b == runNeedLlm[runLlmI + 1]
           res == MapSetOrdered(runLlmResults, b.blockDbId, reply)
           args == progressArgs(runLlmI, Len(runNeedLlm))
           last == runLlmI + 1 = Len(runNeedLlm)
           saves == llmSaves(runRuleResults, res)
       IN  /\ runLlmResults' = res
           /\ runLlmI' = runLlmI + 1
           /\ runQueue' = IF last THEN saves ELSE runQueue
           /\ runProgress' =
                [runProgress EXCEPT
                    !.completedBatches = args[1],
                    !.totalBatches = args[2],
                    !.status = IF ~last THEN @
                               ELSE IF saves = <<>> THEN "saving" ELSE "merging"]
           /\ runLog' = runLog
                \o <<LogEntry("llm", TRUE, b.blockDbId, <<>>, "callLlmJson"),
                     SetProgressEntry(runProgress.status)>>
                \o (IF last THEN <<SetProgressEntry("merging")>> ELSE <<>>)
                \o (IF last /\ saves = <<>> THEN <<SetProgressEntry("saving")>> ELSE <<>>)
           /\ runPc' = IF ~last THEN "llm"
                       ELSE IF saves = <<>> THEN "updateDone" ELSE "saveLlm"
    /\ UNCHANGED <<runParsed, runStored, runFacts, runDocStatus, runRuleResults,
                   runNeedLlm, runTotalFacts>>
    /\ UNCHANGED notRunVars

\* await saveFactsToDb(docId, blockDbId, llmUnique, 'llm') of step 6
SaveLlm ==
    /\ runPc = "saveLlm"
    /\ LET sv == Head(runQueue)
           rows == factRows(sv.blockDbId, sv.items, sv.source)
           last == Tail(runQueue) = <<>>
       IN  \E ok \in BOOLEAN :
            IF ok
            THEN /\ runFacts' = runFacts \o rows
                 /\ runTotalFacts' = runTotalFacts + Len(sv.items)
                 /\ runQueue' = Tail(runQueue)
                 /\ runLog' = runLog \o <<LogEntry("insert", TRUE, sv.blockDbId, rows,
                                                   sv.source)>>
                              \o (IF last THEN <<SetProgressEntry("saving")>> ELSE <<>>)
                 /\ runProgress' = IF last THEN [runProgress EXCEPT !.status = "saving"]
                                   ELSE runProgress
                 /\ runPc' = IF last THEN "updateDone" ELSE "saveLlm"
            ELSE /\ runLog' = runLog \o <<LogEntry("insert", FALSE, sv.blockDbId, rows,
                                                   sv.source),
                                          SetProgressEntry("error")>>
                 /\ runProgress' = [runProgress EXCEPT
                                      !.status = "error",
                                      !.errorMessage = Some(MSG_SAVE_FAILED)]
                 /\ runPc' = "updateError"
                 /\ UNCHANGED <<runFacts, runTotalFacts, runQueue>>
    /\ UNCHANGED <<runParsed, runStored, runDocStatus, runRuleResults, runNeedLlm,
                   runLlmI, runLlmResults>>
    /\ UNCHANGED notRunVars

\* await supabase.from('documents').update({ status: 'done' }), then the
\* last setProgress; the run returns
UpdateDone ==
    /\ runPc = "updateDone"
    /\ \E ok \in BOOLEAN :
        /\ runDocStatus' = IF ok THEN "done" ELSE runDocStatus
        /\ runLog' = runLog \o <<LogEntry("update", ok, <<>>, <<>>, "done"),
                                 SetProgressEntry("done")>>
    /\ runProgress' =
        [status |-> "done", completedBatches |-> Len(runNeedLlm),
         totalBatches |-> Len(runNeedLlm), extractedFacts |-> runTotalFacts,
         errorMessage |-> Null]
    /\ runPc' = "returned"
    /\ UNCHANGED <<runParsed, runStored, runFacts, runRuleResults, runNeedLlm,
                   runLlmI, runLlmResults, runQueue, runTotalFacts>>
    /\ UNCHANGED notRunVars

\* the catch block: await supabase.from('documents').update({ status:
\* 'error', ... }); nothing is thrown again and the run returns
UpdateError ==
    /\ runPc = "updateError"
    /\ \E ok \in BOOLEAN :
        /\ runDocStatus' = IF ok THEN "error" ELSE runDocStatus
        /\ runLog' = Append(runLog, LogEntry("update", ok, <<>>, <<>>, "error"))
    /\ runPc' = "returned"
    /\ UNCHANGED <<runParsed, runStored, runFacts, runProgress, runRuleResults,
                   runNeedLlm, runLlmI, runLlmResults, runQueue, runTotalFacts>>
    /\ UNCHANGED notRunVars

(***************************************************************************)
(* The stored documents of a run: one page of at most MaxRunBlocks blocks, *)
(* each built by buildBlock from one of the contents below, with uids all  *)
(* different or all the same; uploadDocument stored a doc_blocks record    *)
(* for a prefix of the blocks (it stops at the first insert that fails, and *)
(* the insert of a second block of one uid fails); an earlier run has left *)
(* a fact.  The LLM answers a block with one of LlmReplies.                *)
(***************************************************************************)
MaxRunBlocks == 2

RowLine(cells) == <<"|">> \o Join(cells, <<"|">>) \o <<"|">>

RUN_SEPARATOR == <<"|", "-", "|", "-", "|", "-", "|">>

RUN_LINES_kirpich ==
    <<RowLine(TBL_kirpich.headers), RUN_SEPARATOR, RowLine(ROW_kirpich)>>
RUN_LINES_unknown ==
    <<RowLine(TBL_unknown.headers), TL_SEPARATOR, RowLine(TBL_unknown.rows[1])>>
RUN_LINES_floor_material ==
    <<RowLine(TBL_floor_spec.headers), TL_SEPARATOR, RowLine(TBL_floor_spec.rows[1]),
      TL_PLAIN,
      RowLine(EXAMPLE_material_qty), RUN_SEPARATOR, RowLine(ROW_kirpichi),
      RowLine(ROW_kirpich)>>
RUN_LINES_change_log ==
    <<RowLine(TBL_change_log.headers), RUN_SEPARATOR, RowLine(TBL_change_log.rows[1])>>
RUN_LINES_quantity == << <<"1", "0", " ">> \o U_sht >>
RUN_LINES_error == RUN_LINES_kirpich \o <<LINE_ERROR>>

RunContents ==
    {[type |-> BLOCK_TEXT, lines |-> RUN_LINES_kirpich],
     [type |-> BLOCK_TEXT, lines |-> RUN_LINES_unknown],
     [type |-> BLOCK_TEXT, lines |-> RUN_LINES_floor_material],
     [type |-> BLOCK_TEXT, lines |-> RUN_LINES_change_log],
     [type |-> BLOCK_TEXT, lines |-> RUN_LINES_quantity],
     [type |-> BLOCK_TEXT, lines |-> RUN_LINES_error],
     [type |-> BLOCK_IMAGE, lines |-> RUN_LINES_kirpich]}

RunUid(k) == <<"u", DigitChar[k + 1]>>

\* the pages of the parsed file: one page of the blocks of the contents cs
RunPages(cs, sameUid) ==
    << [pageNo |-> 1, sheetLabel |-> Null, sheetName |-> Null,
        blocks |-> [k \in DOMAIN cs |->
                       buildBlock(RunUid(IF sameUid THEN 1 ELSE k), cs[k].type,
                                  cs[k].lines)]] >>

RunDocuments ==
    {RunPages(cs, sameUid) :
        cs \in {<<>>} \cup SeqsUpTo(RunContents, MaxRunBlocks), sameUid \in BOOLEAN}

FactItem(nm, qty, unit) ==
    [raw_name |-> nm, canonical_name |-> Some(nm),
     canonical_key |-> Some(generateCanonicalKey(nm)), quantity |-> qty,
     unit |-> unit, mark |-> Null, gost |-> Null, description |-> Null,
     note |-> Null, source_snippet |-> Some(nm), confidence |-> Number(8, -1)]

LLM_FACT_same_key ==
    FactItem(N_Kirpich_keram \o <<" ">>, Some(Number(16929, -1)), Some(U_SHT_sp))
LLM_FACT_new == FactItem(N_Kirpichi, Some(QTY_200), Some(U_sht))
OLD_FACT ==
    [block_id |-> DbIdOf(RunUid(1)), table_category |-> "llm",
     item |-> FactItem(N_Kirpich, Null, Null)]

LlmReplies == {<<>>, <<LLM_FACT_same_key, LLM_FACT_new>>}

\* the uids of the first n blocks of the page
UidsOfPrefix(pgs, n) == {pgs[1].blocks[k].uid : k \in 1..n}

RunInit ==
    /\ runParsed \in RunDocuments
    /\ \E n \in 0..Len(runParsed[1].blocks) :
        /\ Cardinality(UidsOfPrefix(runParsed, n)) = n
        /\ runStored = UidsOfPrefix(runParsed, n)
        /\ runDocStatus = IF n < Len(runParsed[1].blocks) THEN "parsing"
                          ELSE IF \E k \in 1..n : runParsed[1].blocks[k].hasError
                          THEN "has_errors" ELSE "done"
    /\ runFacts = <<OLD_FACT>>
    /\ runProgress = IDLE_PROGRESS
    /\ runPc = "start"
    /\ runRuleResults = <<>>
    /\ runNeedLlm = <<>>
    /\ runLlmI = 0
    /\ runLlmResults = <<>>
    /\ runQueue = <<>>
    /\ runTotalFacts = 0
    /\ runLog = <<>>

RunNext ==
    \/ UpdateExtracting
    \/ DeleteFacts
    \/ LoadDoc
    \/ Download
    \/ LoadBlocks
    \/ LoadPages
    \/ SaveRuleBased
    \/ \E reply \in LlmReplies : LlmBlockDone(reply)
    \/ SaveLlm
    \/ UpdateDone
    \/ UpdateError

(***************************************************************************)
(* Properties of runExtraction.                                            *)
(***************************************************************************)
RunBlocks == runParsed[1].blocks

\* step 3 of the run has been done
Step3Done == \E k \in DOMAIN runLog : runLog[k].op = "select" /\ runLog[k].note = "doc_pages"

RunReturned == runPc = "returned"

\* the entries of the log of operation op
LogOf(op) == SelectSeq(runLog, LAMBDA en : en.op = op)

\* the block is on the list handed to llmExtractBatch
SentToLlm(block) == \E k \in DOMAIN runNeedLlm : runNeedLlm[k].block = block

\* the condition of the claim on the tables of a block
NeedsLlmAsSpecified(block) ==
    \/ \E k \in DOMAIN block.tables :
          /\ isExtractableCategory(CategoryOf(block.tables[k]))
          /\ CategoryOf(block.tables[k]) \notin RuleCategories
    \/ \E k \in DOMAIN block.tables : CategoryOf(block.tables[k]) = "unknown"
    \/ ruleBasedExtract(block) = <<>>

\* the blocks a document of the model can hold, and the condition on each
AllRunBlocks ==
    {buildBlock(RunUid(k), c.type, c.lines) : k \in 1..MaxRunBlocks, c \in RunContents}

NeedsLlmOf == [b \in AllRunBlocks |-> NeedsLlmAsSpecified(b)]

SCENARIO_BLOCK == buildBlock(RunUid(1), BLOCK_TEXT, RUN_LINES_kirpich)

TextBlockWithTables(block) ==
    ~block.hasError /\ block.type = BLOCK_TEXT /\ block.hasTable

\* the LLM is called for the blocks of the list, one after the other
LlmCallsFollowList ==
    /\ Len(LogOf("llm")) = runLlmI
    /\ \A k \in 1..runLlmI : LogOf("llm")[k].block = runNeedLlm[k].blockDbId
    /\ (runPc \in {"saveLlm", "updateDone"} => runLlmI = Len(runNeedLlm))

\* the spec's scenario: the document of the one block with the one-row
\* material_qty table gives one rule-based item of quantity 1692.9, unit
\* "шт", confidence 0.95, and no LLM call
ScenarioHolds ==
    (/\ Step3Done
     /\ RunBlocks = <<SCENARIO_BLOCK>>
     /\ runStored = {RunUid(1)}) =>
        /\ Len(runRuleResults) = 1
        /\ Len(runRuleResults[1].value) = 1
        /\ runRuleResults[1].value[1].raw_name = N_Kirpich_keram
        /\ runRuleResults[1].value[1].quantity = Some(Number(16929, -1))
        /\ runRuleResults[1].value[1].unit = Some(U_sht)
        /\ runRuleResults[1].value[1].confidence = Number(95, -2)
        /\ runNeedLlm = <<>>
        /\ LogOf("llm") = <<>>

\* C11 as stated: every non-error TEXT block with tables is sent to the LLM
\* exactly when a table of it is of an extractable category other than
\* material_qty/element_spec/spec_elements, or unknown, or the rule-based
\* extractor gave no items for it
C11_LlmSelectionAsStated ==
    Step3Done =>
        /\ \A k \in DOMAIN RunBlocks :
              TextBlockWithTables(RunBlocks[k]) =>
                  (SentToLlm(RunBlocks[k]) <=> NeedsLlmOf[RunBlocks[k]])
        /\ LlmCallsFollowList
        /\ ScenarioHolds

\* C11: a non-error TEXT block with tables whose uid has a stored block
\* record is sent to the LLM exactly when a table of it is of an extractable
\* category other than material_qty/element_spec/spec_elements, or unknown,
\* or the rule-based extractor gave no items for it (a block without a
\* stored record is not sent); the LLM is called for the blocks sent and no
\* others, and the one-row material_qty scenario gives its one item and no
\* LLM call
C11_LlmSelection ==
    Step3Done =>
        /\ \A k \in DOMAIN RunBlocks :
              TextBlockWithTables(RunBlocks[k]) =>
                  (SentToLlm(RunBlocks[k]) <=>
                      (RunBlocks[k].uid \in runStored /\ NeedsLlmOf[RunBlocks[k]]))
        /\ LlmCallsFollowList
        /\ ScenarioHolds

\* a run returned in which the material_qty block was not sent and the
\* block with the unknown table was, with one LLM call
C11_Witness ==
    /\ RunReturned
    /\ RunBlocks = <<buildBlock(RunUid(1), BLOCK_TEXT, RUN_LINES_kirpich),
                     buildBlock(RunUid(2), BLOCK_TEXT, RUN_LINES_unknown)>>
    /\ runStored = {RunUid(1), RunUid(2)}
    /\ ~SentToLlm(RunBlocks[1])
    /\ SentToLlm(RunBlocks[2])
    /\ Len(LogOf("llm")) = 1
    /\ runProgress.status = "done"

\* the run of the scenario returned with its one fact stored and no LLM call
C11_WitnessScenario ==
    /\ RunReturned
    /\ RunBlocks = <<SCENARIO_BLOCK>>
    /\ runStored = {RunUid(1)}
    /\ Len(runFacts) = 1
    /\ runFacts[1].table_category = "rule_based"
    /\ LogOf("llm") = <<>>
    /\ runProgress.status = "done"

\* a block whose only table is a change_log table, which gives no rule-based
\* items, was sent
C11_WitnessNoItems ==
    /\ Step3Done
    /\ RunBlocks = <<buildBlock(RunUid(1), BLOCK_TEXT, RUN_LINES_change_log)>>
    /\ CategoryOf(RunBlocks[1].tables[1]) = "change_log"
    /\ runStored = {RunUid(1)}
    /\ SentToLlm(RunBlocks[1])

\* a block with an unknown table and no stored record was not sent
C11_WitnessNoRecord ==
    /\ Step3Done
    /\ \E k \in DOMAIN RunBlocks :
          /\ TextBlockWithTables(RunBlocks[k])
          /\ NeedsLlmAsSpecified(RunBlocks[k])
          /\ RunBlocks[k].uid \notin runStored
          /\ ~SentToLlm(RunBlocks[k])

\* the rows the run has inserted, in order
InsertedRows ==
    Concat([k \in DOMAIN LogOf("insert") |->
               IF LogOf("insert")[k].ok THEN LogOf("insert")[k].rows ELSE <<>>])

InsertedFor(id, source) ==
    SelectSeq(InsertedRows,
              LAMBDA row : row.block_id = id /\ row.table_category = source)

\* the rule-based items the run holds for the block id
RuleItemsOf(id) == IF MapHas(runRuleResults, id) THEN MapGet(runRuleResults, id) ELSE <<>>

RunBlockIds == {DbIdOf(RunUid(k)) : k \in 1..MaxRunBlocks}

\* the save pass of step 4 is through
RulePassDone ==
    \/ runPc \in {"llm", "saveLlm", "updateDone"}
    \/ (RunReturned /\ runProgress.status = "done")

C12_EveryItemOfDistinctBlocks ==
    (/\ RulePassDone
     /\ \A k, n \in DOMAIN RunBlocks : k /= n => RunBlocks[k].uid /= RunBlocks[n].uid) =>
        \A k \in DOMAIN RunBlocks :
            (TextBlockWithTables(RunBlocks[k]) /\ RunBlocks[k].uid \in runStored) =>
                InsertedFor(DbIdOf(RunBlocks[k].uid), "rule_based") =
                    factRows(DbIdOf(RunBlocks[k].uid), ruleBasedExtract(RunBlocks[k]),
                             "rule_based")

\* an entry of the log of operation op that failed
Failed(op) == \E k \in DOMAIN runLog : runLog[k].op = op /\ ~runLog[k].ok

RunDone == RunReturned /\ runProgress.status = "done"

\* C13: the deletion of the document's facts has taken effect before the
\* first insert of the run, and after a run that ends with status 'done' the
\* stored facts are exactly the facts the run inserted
C13_ClearedBeforeInsert ==
    (InsertedRows /= <<>> \/ RunDone) => runFacts = InsertedRows

\* the delete failed, the run went on and ended 'done' with the fact of the
\* earlier run still stored beside its own
C13_Witness ==
    /\ RunDone
    /\ Failed("delete")
    /\ InsertedRows /= <<>>
    /\ runFacts = <<OLD_FACT>> \o InsertedRows
    /\ runDocStatus = "done"

\* when the delete did not fail, the stored facts are those of the run
C13_WhenDeleteSucceeds ==
    (Len(LogOf("delete")) = 1 /\ ~Failed("delete")) => runFacts = InsertedRows

\* the run threw to its caller; the catch block throws nothing again, so
\* the run has no such position
RunRejected == runPc = "rejected"

PersistenceFailed == Failed("delete") \/ Failed("insert") \/ Failed("update")

\* C14: when a persistence operation of the run failed, the run is aborted
\* (no later insert and no update to 'done'), its progress ends as 'error'
\* with a message, the document status is 'error' and was never set to
\* 'done', and the run throws to its caller
C14_PersistenceFailureAborts ==
    (RunReturned /\ PersistenceFailed) =>
        /\ runProgress.status = "error"
        /\ runProgress.errorMessage /= Null
        /\ runDocStatus = "error"
        /\ \A k \in DOMAIN runLog :
              ~(runLog[k].op = "update" /\ runLog[k].note = "done")
        /\ \A k, n \in DOMAIN runLog :
              (k < n /\ ~runLog[k].ok /\ runLog[k].op \in {"delete", "insert"}) =>
                  runLog[n].op /= "insert"
        /\ RunRejected

\* an insert failed: the run stopped saving, set the progress and the
\* document status to 'error', and returned to its caller without throwing
C14_Witness ==
    /\ RunReturned
    /\ Failed("insert")
    /\ runProgress.status = "error"
    /\ runProgress.errorMessage = Some(MSG_SAVE_FAILED)
    /\ runDocStatus = "error"
    /\ ~RunRejected

\* the delete and both updates failed and the run ended 'done'
C14_WitnessIgnoredFailures ==
    /\ RunDone
    /\ Failed("delete")
    /\ Failed("update")
    /\ runDocStatus /= "done"

\* what the code does on a failed insert: nothing more is inserted, the
\* status is never set to 'done', the progress is 'error' with the message
\* of saveFactsToDb, and the document status is 'error' when that update
\* went through
C14_FailedInsertStopsRun ==
    (RunReturned /\ Failed("insert")) =>
        /\ runProgress.status = "error"
        /\ runProgress.errorMessage = Some(MSG_SAVE_FAILED)
        /\ ~LogOf("insert")[Len(LogOf("insert"))].ok
        /\ \A k \in 1..Len(LogOf("insert")) - 1 : LogOf("insert")[k].ok
        /\ \A k \in DOMAIN runLog :
              ~(runLog[k].op = "update" /\ runLog[k].note = "done")
        /\ (runLog[Len(runLog)].ok => runDocStatus = "error")


(***************************************************************************)
(* Properties of the blocks of a parsed document.                          *)
(***************************************************************************)
\* the raw lines of block k of page n: the lines accumulated after its
\* marker, or every line of the input for the block of the fallback page
BlockLinesOf(n, k) ==
    IF NoMarkers THEN lines ELSE LinesOfBlock(BlockMarkersOf(n)[k])

HasRowLine(ls) == \E j \in DOMAIN ls : TABLE_ROW_RE(ls[j])

\* hasTable of block k of page n is true exactly when its tables list is
\* non-empty or one of its lines is a table row
HasTableIff(n, k) ==
    LET block == doc.pages[n].blocks[k]
    IN  block.hasTable <=> (block.tables /= <<>> \/ HasRowLine(BlockLinesOf(n, k)))

\* C21: for every block of every parsed document, the fallback block
\* included, hasTable is true if and only if the tables list is non-empty or
\* some line of the block's content matches the table-row pattern; a
\* non-empty tables list implies hasTable.
C21_HasTableIff ==
    ParseDone =>
        \A n \in DOMAIN doc.pages : \A k \in DOMAIN doc.pages[n].blocks :
            /\ HasTableIff(n, k)
            /\ doc.pages[n].blocks[k].tables /= <<>> => doc.pages[n].blocks[k].hasTable

\* C21: an input of two lines without markers whose second line is a table
\* row was parsed: the block of the fallback page has hasTable false
C21_Witness ==
    /\ ParseDone
    /\ NoMarkers
    /\ Len(lines) = 2
    /\ TABLE_ROW_RE(lines[2])
    /\ doc.pages[1].blocks[1].content = mdText
    /\ ~doc.pages[1].blocks[1].hasTable

\* C21, for the blocks that buildBlock makes (the input has a marker)
C21_BuiltBlocks ==
    ParseDone /\ ~NoMarkers =>
        \A n \in DOMAIN doc.pages : \A k \in DOMAIN doc.pages[n].blocks :
            HasTableIff(n, k)

\* C21, the last part: a block with tables has hasTable true
C21_TablesImplyHasTable ==
    ParseDone =>
        \A n \in DOMAIN doc.pages : \A k \in DOMAIN doc.pages[n].blocks :
            doc.pages[n].blocks[k].tables /= <<>> => doc.pages[n].blocks[k].hasTable

\* C21: a block with a table was built, and one with a single row line and
\* no table
C21_WitnessBuilt ==
    /\ ParseDone
    /\ lines = <<LINE_BLOCK_TEXT, LINE_ROW, LINE_ROW, LINE_BLOCK_TEXT>>
    /\ doc.pages[1].blocks[1].hasTable
    /\ Len(doc.pages[1].blocks[1].tables) = 1
    /\ ~doc.pages[1].blocks[2].hasTable


\* C22: in every parsed document a block's tables list is non-empty only if
\* the block's type is TEXT and its hasTable is true; a block of type IMAGE
\* always has an empty tables list, whatever its content.
C22_TablesOnlyInTextBlocks ==
    ParseDone =>
        \A n \in DOMAIN doc.pages : \A k \in DOMAIN doc.pages[n].blocks :
            LET block == doc.pages[n].blocks[k]
            IN  /\ block.tables /= <<>> => block.type = BLOCK_TEXT /\ block.hasTable
                /\ block.type = BLOCK_IMAGE => block.tables = <<>>

\* C22: an IMAGE block whose content is two table-row lines was parsed and
\* holds one table
C22_Witness ==
    /\ ParseDone
    /\ lines = <<LINE_BLOCK_IMAGE, LINE_ROW, LINE_ROW>>
    /\ doc.pages[1].blocks[1].type = BLOCK_IMAGE
    /\ doc.pages[1].blocks[1].hasTable
    /\ Len(doc.pages[1].blocks[1].tables) = 1

\* C22, what the code does: the tables of a block do not depend on its type,
\* an IMAGE block has the tables of a TEXT block of the same lines
C22_TablesWhateverTheType ==
    ParseDone /\ ~NoMarkers =>
        \A n \in DOMAIN doc.pages : \A k \in DOMAIN doc.pages[n].blocks :
            doc.pages[n].blocks[k].tables
                = buildBlock(FALLBACK_UID, BLOCK_TEXT, BlockLinesOf(n, k)).tables


\* t is the first bracketed error marker of s: it stands at some k..j, opens
\* with "[Ошибка", closes with its only "]", and no marker starts before k
IsFirstErrorMarker(s, t) ==
    \E k \in DOMAIN s : \E j \in k..Len(s) :
        /\ t = SubSeq(s, k, j)
        /\ PrefixAt(s, k, ERROR_OPEN)
        /\ j >= k + Len(ERROR_OPEN)
        /\ s[j] = "]"
        /\ \A e \in k..j - 1 : s[e] /= "]"
        /\ \A e \in 1..k - 1 :
               ~(PrefixAt(s, e, ERROR_OPEN) /\ \E c \in e..Len(s) : s[c] = "]")

\* errorText of the block is non-null exactly when hasError is true, and is
\* then the first bracketed error marker of the content
ErrorTextOfMarker(block) ==
    /\ block.errorText /= Null <=> block.hasError
    /\ block.hasError => /\ block.errorText /= Null
                         /\ IsFirstErrorMarker(block.content, block.errorText[1])

\* C30: for every block of every parsed document, the fallback block
\* included, errorText is non-null exactly when hasError is true, and then
\* it equals the first bracketed "[Ошибка...]" substring of the content.
C30_ErrorText ==
    ParseDone =>
        \A n \in DOMAIN doc.pages : \A k \in DOMAIN doc.pages[n].blocks :
            ErrorTextOfMarker(doc.pages[n].blocks[k])

\* C30: an input without markers that holds an error marker was parsed: the
\* block of the fallback page has hasError true and errorText null
C30_Witness ==
    /\ ParseDone
    /\ NoMarkers
    /\ \E k \in DOMAIN lines : lines[k] = LINE_ERROR
    /\ doc.pages[1].blocks[1].hasError
    /\ doc.pages[1].blocks[1].errorText = Null

\* C30, for the blocks that buildBlock makes (the input has a marker)
C30_BuiltBlocks ==
    ParseDone /\ ~NoMarkers =>
        \A n \in DOMAIN doc.pages : \A k \in DOMAIN doc.pages[n].blocks :
            ErrorTextOfMarker(doc.pages[n].blocks[k])

\* C30: a block with an error marker was built and holds the marker's text
C30_WitnessBuilt ==
    /\ ParseDone
    /\ lines = <<LINE_BLOCK_TEXT, LINE_ERROR, LINE_ERROR, LINE_BLOCK_TEXT>>
    /\ doc.pages[1].blocks[1].hasError
    /\ doc.pages[1].blocks[1].errorText = Some(ERROR_OPEN \o <<" ", "x", "]">>)
    /\ doc.pages[1].blocks[2].errorText = Null


(***************************************************************************)
(* Properties of the column discovery of the extractors.                   *)
(***************************************************************************)
\* the header contains the keyword variant, whatever the case of its letters
ContainsVariant(header, kw) == includes(toLowerCase(header), kw)

ContainsAnyVariant(header, keywords) ==
    \E p \in DOMAIN keywords : ContainsVariant(header, keywords[p])

\* the keyword variants of the fields of the extractor of a category
KeywordsOf(cat) ==
    IF cat = "material_qty" THEN MATERIAL_QTY_KEYWORDS
    ELSE IF cat = "element_spec" THEN ELEMENT_SPEC_KEYWORDS
    ELSE SPEC_ELEMENTS_KEYWORDS

\* idx is the leftmost header that contains any of the variants, no column
\* when no header contains one
LeftmostOfAnyVariant(hs, keywords, idx) ==
    IF \E k \in DOMAIN hs : ContainsAnyVariant(hs[k], keywords)
    THEN /\ idx \in DOMAIN hs
         /\ ContainsAnyVariant(hs[idx], keywords)
         /\ \A k \in 1..idx - 1 : ~ContainsAnyVariant(hs[k], keywords)
    ELSE idx = NoColumn

\* idx is the leftmost header that contains the first of the variants, in
\* their order, that some header contains; no column when no header
\* contains a variant
LeftmostOfFirstVariant(hs, keywords, idx) ==
    IF \E k \in DOMAIN hs : ContainsAnyVariant(hs[k], keywords)
    THEN /\ idx \in DOMAIN hs
         /\ \E p \in DOMAIN keywords :
               /\ ContainsVariant(hs[idx], keywords[p])
               /\ \A k \in 1..idx - 1 : ~ContainsVariant(hs[k], keywords[p])
               /\ \A q \in 1..p - 1 : \A k \in DOMAIN hs :
                      ~ContainsVariant(hs[k], keywords[q])
    ELSE idx = NoColumn

\* every field of every table an extractor was called for has the column
\* that the rule gives
ColumnsFoundBy(rule(_, _, _)) ==
    /\ Len(exColumns) = Len(exBlock[1].tables)
    /\ \A k \in DOMAIN exColumns :
           LET table == exBlock[1].tables[k]
           IN  IF CategoryOf(table) \in RuleCategories
               THEN /\ exColumns[k] /= Null
                    /\ DOMAIN exColumns[k][1] = DOMAIN KeywordsOf(CategoryOf(table))
                    /\ \A f \in DOMAIN exColumns[k][1] :
                           rule(table.headers, KeywordsOf(CategoryOf(table))[f],
                                exColumns[k][1][f])
               ELSE exColumns[k] = Null

\* C23 as stated: for each expected field of a rule-extracted table the
\* column used is the leftmost header that contains, case-insensitively, any
\* of the field's keyword variants, also when several headers contain
\* different variants, and the field is absent only when no header contains
\* any variant.
C23_LeftmostHeaderAsStated == ExtractDone => ColumnsFoundBy(LeftmostOfAnyVariant)

\* C23 amended: the column used is the leftmost header that contains the
\* first keyword variant, in the order of the field's variants, that some
\* header contains; when several headers contain different variants the
\* header of the earliest variant is chosen, which need not be the leftmost
\* of them; the field is absent only when no header contains any variant.
C23_ColumnDiscovery == ExtractDone => ColumnsFoundBy(LeftmostOfFirstVariant)

\* C23: a table whose name column stands left of its description column was
\* extracted: the description field has column 3, and the names of the items
\* are the cells of that column
C23_Witness ==
    /\ ExtractDone
    /\ exBlock[1].tables = <<TBL_element_described, TBL_material_two_qty>>
    /\ exColumns[1][1].descIdx = 3
    /\ ContainsAnyVariant(TBL_element_described.headers[2], ELEMENT_SPEC_KEYWORDS.descIdx)
    /\ exColumns[2][1].qtyIdx = 3
    /\ exItems[1][1].raw_name = N_Kirpich_keram
    /\ exItems[1][2].quantity = Some(Number(2026, -1))

\* C23: two headers contain the variant "количество" and the left one of
\* the two is taken; a field that no header has a variant of is absent
C23_WitnessSameVariant ==
    /\ ExtractDone
    /\ exBlock[1].tables = <<TBL_material_two_qty, TBL_element_spec>>
    /\ ContainsVariant(TBL_material_two_qty.headers[5], KW_kolichestvo)
    /\ exColumns[1][1].qtyIdx = 3
    /\ exColumns[2][1].descIdx = NoColumn
    /\ exColumns[2][1].noteIdx = NoColumn
    /\ exColumns[2][1].qtyIdx = 2


(***************************************************************************)
(* Properties of the extractors on a table without its name column.        *)
(***************************************************************************)
\* the anchor name/description field of a rule-extracted category, and the
\* field the extractor takes the name from when the anchor has no column
AnchorField(cat) == IF cat = "element_spec" THEN "descIdx" ELSE "nameIdx"

SubstituteField(cat) == IF cat = "element_spec" THEN "markIdx" ELSE "designationIdx"

HasColumnFor(table, keywords) ==
    \E k \in DOMAIN table.headers : ContainsAnyVariant(table.headers[k], keywords)

\* the table is of a rule-extracted category and has no anchor column
LacksAnchor(table) ==
    /\ CategoryOf(table) \in RuleCategories
    /\ ~HasColumnFor(table, KeywordsOf(CategoryOf(table))[AnchorField(CategoryOf(table))])

\* the trimmed cells of at least 3 characters of the leftmost column whose
\* header contains the keyword, in the order of the rows
CellsOfColumn(table, kw) ==
    LET c == Min({k \in DOMAIN table.headers : ContainsVariant(table.headers[k], kw)})
        cell == [r \in DOMAIN table.rows |->
                    IF c \in DOMAIN table.rows[r] THEN Trim(table.rows[r][c]) ELSE <<>>]
    IN  SelectSeq(cell, LAMBDA x : Len(x) >= 3)

RawNames(items) == [k \in DOMAIN items |-> items[k].raw_name]

\* the items returned are, table after table, those of part
ItemsAreParts(part) == exItems[1] = Concat(part)

\* C24 as stated: a table classified material_qty, element_spec or
\* spec_elements that lacks the anchor name/description column of its
\* category yields no items, whatever its rows contain, and the other tables
\* of the block are still extracted.
C24_AbortWithoutAnchorAsStated ==
    ExtractDone =>
        ItemsAreParts([k \in DOMAIN exBlock[1].tables |->
                          IF LacksAnchor(exBlock[1].tables[k]) THEN <<>>
                          ELSE tableItems(exBlock[1].tables[k])])

\* C24 amended: a table classified into a rule-extracted category that
\* lacks its anchor column is not aborted: it is an element_spec table with
\* a "марка" column or a spec_elements table with an "обозначение" column
\* (a material_qty table always has "наименование"), and it yields one item
\* for each row whose cell in that column has at least 3 characters, named
\* by the cell; the other tables of the block are still extracted.
C24_NameFromSubstituteColumn ==
    ExtractDone =>
        LET tables == exBlock[1].tables
        IN  /\ ItemsAreParts([k \in DOMAIN tables |-> tableItems(tables[k])])
            /\ \A k \in DOMAIN tables :
                   LacksAnchor(tables[k]) =>
                       LET cat == CategoryOf(tables[k])
                           kw == KeywordsOf(cat)[SubstituteField(cat)]
                       IN  /\ cat /= "material_qty"
                           /\ HasColumnFor(tables[k], kw)
                           /\ RawNames(tableItems(tables[k]))
                                  = CellsOfColumn(tables[k], kw[1])

\* C24: a spec_elements table without a name column and an element_spec
\* table without a description column were extracted, the first gave the
\* item of its designation cell and the second the items of its mark cells
C24_Witness ==
    /\ ExtractDone
    /\ exBlock[1].tables = <<TBL_spec_designation, TBL_element_spec>>
    /\ LacksAnchor(TBL_spec_designation)
    /\ LacksAnchor(TBL_element_spec)
    /\ RawNames(exItems[1]) = <<CELL_GOST_530, CELL_OK_1, CELL_GOST_530>>

\* C24: the table after one without anchor column is extracted
C24_WitnessOtherTables ==
    /\ ExtractDone
    /\ exBlock[1].tables = <<TBL_element_spec, TBL_kirpich>>
    /\ RawNames(exItems[1]) = <<CELL_OK_1, CELL_GOST_530, N_Kirpich_keram>>

\* C24: the abort of an extractor is met by no table of its category: the
\* extractors return at once only for a table with neither the anchor nor
\* the substitute column
C24_AbortOnlyWithoutBoth ==
    \A t \in ExtractTables :
        /\ (extractMaterialQty(t) /= <<>>
               => HasColumnFor(t, MATERIAL_QTY_KEYWORDS.nameIdx))
        /\ (~HasColumnFor(t, ELEMENT_SPEC_KEYWORDS.descIdx)
            /\ ~HasColumnFor(t, ELEMENT_SPEC_KEYWORDS.markIdx)
               => extractElementSpec(t) = <<>>)
        /\ (~HasColumnFor(t, SPEC_ELEMENTS_KEYWORDS.nameIdx)
            /\ ~HasColumnFor(t, SPEC_ELEMENTS_KEYWORDS.designationIdx)
               => extractSpecElements(t) = <<>>)


(***************************************************************************)
(* Properties of the retry of a failed extraction.                         *)
(***************************************************************************)
\* the reply of block n was received and did not parse or did not validate
ReplyRejected(n) == iterations[n].response /= Null /\ BlockFailed(n)

\* C26: every failure mode of the extraction capability (transport error,
\* non-success status, malformed or missing content, schema-validation
\* failure of the returned text) is surfaced as a failure only after the one
\* retry: a block is recorded with zero items for a failure only after a
\* second request was made for it, also when its reply did not parse or did
\* not validate against the items schema.
C26_FailureOnlyAfterRetry ==
    \A n \in DOMAIN iterations : BlockFailed(n) => iterations[n].requests = 2

\* C26: a block whose first reply was not JSON was recorded with zero items
\* after one request, and the batch went on to the next block
C26_Witness ==
    /\ BatchDone
    /\ Len(blocks) = 2
    /\ iterations[1].response = Some(NOT_JSON)
    /\ iterations[1].requests = 1
    /\ iterations[1].items = <<>>
    /\ results[blocks[1]] = <<>>

\* C26, the failures of the call itself: a block whose call threw was sent
\* two requests, and no block more than two
C26_CallFailuresRetried ==
    \A n \in DOMAIN iterations :
        /\ iterations[n].requests \in {1, 2}
        /\ iterations[n].response = Null => iterations[n].requests = 2

\* C26: a reply that did not validate was recorded after the second request
\* only because the first request had failed
C26_WitnessRejectedSecondReply ==
    /\ BatchDone
    /\ Len(blocks) = 1
    /\ iterations[1].response = Some(RESP_no_items)
    /\ ReplyRejected(1)
    /\ iterations[1].requests = 2


(***************************************************************************)
(* llm.ts: callLlmJson.  A step runs from one await to the next.           *)
(***************************************************************************)
DEFAULT_TIMEOUT_MS == 60000
BACKOFF_MS == 1000

\* the delay of the abort timer: timeoutMs = 60000 unless the caller gives one
timerDelay(timeoutMs) == IF timeoutMs = Null THEN DEFAULT_TIMEOUT_MS ELSE timeoutMs[1]

ERR_NO_API_KEY == "Missing VITE_OPENROUTER_API_KEY in environment"
ERR_NETWORK == "TypeError: Failed to fetch"
ERR_ABORT == "AbortError"
ERR_STATUS_TEXT == "OpenRouter API error 500: overloaded"
ERR_STATUS_UNKNOWN == "OpenRouter API error 500: unknown error"
ERR_BODY_JSON == "SyntaxError: Unexpected token"
ERR_NO_CONTENT == "No content in LLM response"

\* an entry of the log of the call
LlmEvent(event, att, error, ms) ==
    [event |-> event, attempt |-> att, error |-> error, ms |-> ms]

\* mutant of waitsAfter: the wait follows every failure
waitsAfter_always(att) == TRUE

\* if (attempt === 0): the catch block waits before the retry
waitsAfter(att) == att = 0

\* the catch block on err: lastError = err; after the first attempt the
\* wait begins, after the second the loop ends and lastError is thrown
Catch(err) ==
    /\ llmLastError' = Some(err)
    /\ llmFetched' = Null
    /\ IF waitsAfter(llmAttempt)
       THEN /\ llmPc' = "backoff"
            /\ llmOutcome' = llmOutcome
            /\ llmLog' = llmLog \o <<LlmEvent("failed", llmAttempt, err, 0),
                                     LlmEvent("wait", llmAttempt, "", BACKOFF_MS)>>
       ELSE /\ llmPc' = "thrown"
            /\ llmOutcome' = Some([ok |-> FALSE, value |-> err])
            /\ llmLog' = llmLog \o <<LlmEvent("failed", llmAttempt, err, 0),
                                     LlmEvent("throw", llmAttempt, err, 0)>>

\* the body of the loop up to the await of fetch: the timer is set and the
\* request is sent
SendRequest ==
    /\ llmPc = "loop"
    /\ llmAttempt < 2
    /\ llmApiKey
    /\ llmPc' = "fetching"
    /\ llmLog' = Append(llmLog, LlmEvent("request", llmAttempt, "",
                                         timerDelay(llmTimeoutMs)))
    /\ UNCHANGED <<llmApiKey, llmTimeoutMs, llmAttempt, llmLastError, llmFetched,
                   llmOutcome>>
    /\ UNCHANGED notLlmVars

\* getApiKey throws while the request is built: nothing is sent
NoApiKey ==
    /\ llmPc = "loop"
    /\ llmAttempt < 2
    /\ ~llmApiKey
    /\ Catch(ERR_NO_API_KEY)
    /\ UNCHANGED <<llmApiKey, llmTimeoutMs, llmAttempt>>
    /\ UNCHANGED notLlmVars

\* fetch rejects: transport error, or the timer fired and aborted the request
FetchRejects ==
    /\ llmPc = "fetching"
    /\ \E err \in {ERR_NETWORK, ERR_ABORT} : Catch(err)
    /\ UNCHANGED <<llmApiKey, llmTimeoutMs, llmAttempt>>
    /\ UNCHANGED notLlmVars

\* fetch resolves with a response, the timer is cleared; the body is read
FetchResolves ==
    /\ llmPc = "fetching"
    /\ \E ok \in BOOLEAN :
           /\ llmFetched' = Some([ok |-> ok])
           /\ llmPc' = IF ok THEN "json" ELSE "text"
    /\ UNCHANGED <<llmApiKey, llmTimeoutMs, llmAttempt, llmLastError, llmOutcome,
                   llmLog>>
    /\ UNCHANGED notLlmVars

\* !response.ok: response.text() settles (a rejection gives 'unknown error')
\* and the error of the status is thrown
ReadErrorText ==
    /\ llmPc = "text"
    /\ \E err \in {ERR_STATUS_TEXT, ERR_STATUS_UNKNOWN} : Catch(err)
    /\ UNCHANGED <<llmApiKey, llmTimeoutMs, llmAttempt>>
    /\ UNCHANGED notLlmVars

\* the message contents of the bodies: null when choices[0].message.content
\* is missing
LLM_CONTENT_items == "{\"items\": []}"
LLM_CONTENT_text == "no materials"
LlmBodies == {Null, Some(""), Some(LLM_CONTENT_items), Some(LLM_CONTENT_text)}

\* response.json() settles: a rejection, or a body with the content missing
\* or empty, is thrown; any other content is returned
ReadJson ==
    /\ llmPc = "json"
    /\ \/ Catch(ERR_BODY_JSON)
       \/ \E content \in LlmBodies :
              IF content = Null \/ content = Some("")
              THEN Catch(ERR_NO_CONTENT)
              ELSE /\ llmPc' = "returned"
                   /\ llmOutcome' = Some([ok |-> TRUE, value |-> content[1]])
                   /\ llmLog' = Append(llmLog, LlmEvent("return", llmAttempt, "", 0))
                   /\ llmFetched' = Null
                   /\ llmLastError' = llmLastError
    /\ UNCHANGED <<llmApiKey, llmTimeoutMs, llmAttempt>>
    /\ UNCHANGED notLlmVars

\* the wait of the catch block is over: attempt++ and the loop goes on
BackoffElapsed ==
    /\ llmPc = "backoff"
    /\ llmAttempt' = llmAttempt + 1
    /\ llmPc' = "loop"
    /\ llmLog' = Append(llmLog, LlmEvent("waited", llmAttempt, "", BACKOFF_MS))
    /\ UNCHANGED <<llmApiKey, llmTimeoutMs, llmLastError, llmFetched, llmOutcome>>
    /\ UNCHANGED notLlmVars

LlmNext ==
    \/ SendRequest
    \/ NoApiKey
    \/ FetchRejects
    \/ FetchResolves
    \/ ReadErrorText
    \/ ReadJson
    \/ BackoffElapsed

\* callLlmJson is called, with or without a timeout option
LlmInit ==
    /\ llmApiKey \in BOOLEAN
    /\ llmTimeoutMs \in {Null, Some(5000)}
    /\ llmAttempt = 0
    /\ llmLastError = Null
    /\ llmFetched = Null
    /\ llmPc = "loop"
    /\ llmOutcome = Null
    /\ llmLog = <<>>


(***************************************************************************)
(* Properties of the retry of callLlmJson.                                 *)
(***************************************************************************)
\* the positions of the log where attempt att acts
AttemptEvents(att) ==
    {i \in DOMAIN llmLog : /\ llmLog[i].attempt = att
                           /\ llmLog[i].event \in {"request", "failed", "return"}}

\* the positions of the log with event ev of attempt att
EventsOf(ev, att) ==
    {i \in DOMAIN llmLog : llmLog[i].event = ev /\ llmLog[i].attempt = att}

\* the second attempt acts only after the first failed and the wait of
\* BACKOFF_MS has elapsed
SecondAfterBackoff ==
    \A i \in AttemptEvents(1) :
        \E j \in EventsOf("failed", 0) : \E k \in EventsOf("waited", 0) :
            j < k /\ k < i /\ llmLog[k].ms = BACKOFF_MS

\* a successful attempt returns at once: nothing follows it
ReturnsAtOnce ==
    \A i \in DOMAIN llmLog :
        llmLog[i].event = "return" =>
            /\ i = Len(llmLog)
            /\ llmPc = "returned"
            /\ llmOutcome # Null /\ llmOutcome[1].ok

\* the call throws only after both attempts failed, with the error of the
\* second attempt, and nothing is waited after the second failure
ThrowsSecondError ==
    (llmOutcome # Null /\ ~llmOutcome[1].ok) =>
        /\ EventsOf("failed", 0) # {} /\ EventsOf("failed", 1) # {}
        /\ \A j \in EventsOf("failed", 1) :
               /\ llmOutcome[1].value = llmLog[j].error
               /\ j + 1 = Len(llmLog)
               /\ llmLog[j + 1].event = "throw"

\* C25: callLlmJson makes at most two attempts; the second is made only
\* after the first failed and the fixed backoff has elapsed; a successful
\* attempt returns at once; the call fails only after both attempts failed,
\* with the error of the second, and no backoff follows the second failure.
C25_OneRetryAfterBackoff ==
    /\ \A i \in DOMAIN llmLog : llmLog[i].attempt \in {0, 1}
    /\ Cardinality(EventsOf("failed", 0)) <= 1
    /\ Cardinality(EventsOf("failed", 1)) <= 1
    /\ Cardinality(EventsOf("request", 0) \cup EventsOf("request", 1)) <= 2
    /\ SecondAfterBackoff
    /\ ReturnsAtOnce
    /\ ThrowsSecondError
    /\ EventsOf("wait", 1) = {} /\ EventsOf("waited", 1) = {}
    /\ llmPc \in {"returned", "thrown"} <=> llmOutcome # Null

\* both attempts failed, with different errors, and the second is thrown
C25_Witness ==
    /\ llmPc = "thrown"
    /\ llmOutcome = Some([ok |-> FALSE, value |-> ERR_NO_CONTENT])
    /\ llmLastError = Some(ERR_NO_CONTENT)
    /\ \E j \in EventsOf("failed", 0) : llmLog[j].error = ERR_ABORT
    /\ EventsOf("request", 1) # {}

\* the first attempt failed and the second returned the content
C25_WitnessRetrySucceeds ==
    /\ llmPc = "returned"
    /\ llmOutcome = Some([ok |-> TRUE, value |-> LLM_CONTENT_items])
    /\ EventsOf("failed", 0) # {}
    /\ EventsOf("return", 1) # {}


(***************************************************************************)
(* Properties of the blocks a run passes over.                             *)
(***************************************************************************)
\* the block is passed over by step 3: it has an error, it is not a TEXT
\* block, or its uid has no stored record
PassedOver(block) ==
    block.hasError \/ block.type = BLOCK_IMAGE \/ block.uid \notin runStored

\* the positions of the blocks step 3 works on
WorkedOn == {k \in DOMAIN RunBlocks : ~PassedOver(RunBlocks[k])}

\* the list handed to llmExtractBatch holds blocks that are worked on, each
\* at most once: its entries are those of increasing positions of WorkedOn
QueuedAtMostOnce ==
    \E f \in [DOMAIN runNeedLlm -> DOMAIN RunBlocks] :
        /\ \A i \in DOMAIN f : f[i] \in WorkedOn
        /\ \A i, j \in DOMAIN f : i < j => f[i] < f[j]
        /\ \A i \in DOMAIN f :
               runNeedLlm[i] = BlockForExtraction(RunBlocks[f[i]], 1,
                                                  DbIdOf(RunBlocks[f[i]].uid))

\* every insert of rule-based facts is of the items ruleBasedExtract gives
\* for a block that is worked on
RuleFactsOfWorkedOn ==
    \A n \in DOMAIN runLog :
        (runLog[n].op = "insert" /\ runLog[n].note = "rule_based") =>
            \E k \in WorkedOn :
                /\ runLog[n].block = DbIdOf(RunBlocks[k].uid)
                /\ runLog[n].rows = factRows(runLog[n].block,
                                             ruleBasedExtract(RunBlocks[k]),
                                             "rule_based")

\* the calls of the LLM are for the blocks of the list, in its order, one
\* call for an entry
CallsOfTheList ==
    /\ Len(LogOf("llm")) <= Len(runNeedLlm)
    /\ \A k \in DOMAIN LogOf("llm") : LogOf("llm")[k].block = runNeedLlm[k].blockDbId

\* C27: in a run, a block with hasError, a block of type IMAGE and a block
\* whose uid has no stored record produce no rule-based facts and are never
\* sent to the LLM; every other block is queued for the LLM at most once.
C27_PassedOverBlocks ==
    /\ QueuedAtMostOnce
    /\ RuleFactsOfWorkedOn
    /\ CallsOfTheList
    /\ \A k \in DOMAIN RunBlocks :
           (PassedOver(RunBlocks[k]) /\ \A j \in WorkedOn : RunBlocks[j].uid # RunBlocks[k].uid) =>
               /\ \A i \in DOMAIN runNeedLlm : runNeedLlm[i].blockDbId # DbIdOf(RunBlocks[k].uid)
               /\ \A n \in DOMAIN runLog :
                      runLog[n].op \in {"insert", "llm"} =>
                          runLog[n].block # DbIdOf(RunBlocks[k].uid)

\* a run that returned: an IMAGE block with a material table and an error
\* block were passed over, both with records
C27_Witness ==
    /\ RunReturned
    /\ Len(RunBlocks) = 2
    /\ RunBlocks[1].type = BLOCK_IMAGE /\ RunBlocks[1].hasTable
    /\ RunBlocks[2].hasError /\ RunBlocks[2].hasTable
    /\ RunBlocks[1].uid # RunBlocks[2].uid
    /\ runStored = {RunBlocks[1].uid, RunBlocks[2].uid}
    /\ runProgress.status = "done"
    /\ runNeedLlm = <<>>
    /\ LogOf("insert") = <<>>

\* a run that returned: the first block was saved and sent, the second has
\* no record and is passed over
C27_WitnessNoRecord ==
    /\ RunReturned
    /\ Len(RunBlocks) = 2
    /\ RunBlocks[1] = buildBlock(RunUid(1), BLOCK_TEXT, RUN_LINES_floor_material)
    /\ RunBlocks[2] = buildBlock(RunUid(2), BLOCK_TEXT, RUN_LINES_unknown)
    /\ runStored = {RunUid(1)}
    /\ Len(runNeedLlm) = 1
    /\ Len(LogOf("llm")) = 1
    /\ \E n \in DOMAIN runLog : runLog[n].op = "insert" /\ runLog[n].note = "rule_based"

\* a run of two blocks of one uid: both are queued, each once
C27_WitnessSameUid ==
    /\ RunReturned
    /\ Len(RunBlocks) = 2
    /\ RunBlocks[1].uid = RunBlocks[2].uid
    /\ Len(runNeedLlm) = 2
    /\ Len(LogOf("llm")) = 2


(***************************************************************************)
(* Properties of the order of the passes of a run.                         *)
(***************************************************************************)
\* the positions of the log of the inserts of source
InsertsOf(source) ==
    {n \in DOMAIN runLog : runLog[n].op = "insert" /\ runLog[n].note = source}

LlmCalls == {n \in DOMAIN runLog : runLog[n].op = "llm"}

\* every insert of rule-based facts is before every call of the LLM, and
\* when the batch is begun every entry of ruleBasedResults has been inserted
RuleInsertsBeforeLlm ==
    /\ \A j \in InsertsOf("rule_based") : \A i \in LlmCalls : j < i
    /\ (runPc = "llm" \/ LlmCalls # {}) =>
           /\ Cardinality(InsertsOf("rule_based")) = Len(runRuleResults)
           /\ \A j \in InsertsOf("rule_based") : runLog[j].ok

\* an insert of facts of source 'llm' is after the calls of the whole list
LlmInsertsAfterBatch ==
    \A j \in InsertsOf("llm") :
        /\ Cardinality({i \in LlmCalls : i < j}) = Len(runNeedLlm)
        /\ \A i \in LlmCalls : i < j

\* an insert of the LLM save pass failed
LlmSaveFailed == \E j \in InsertsOf("llm") : ~runLog[j].ok

\* the facts of every entry of ruleBasedResults are stored
RuleFactsStored ==
    \A k \in DOMAIN runRuleResults :
        LET rows == factRows(runRuleResults[k].key, runRuleResults[k].value,
                             "rule_based")
        IN  \A r \in DOMAIN rows : \E n \in DOMAIN runFacts : runFacts[n] = rows[r]

C28_WitnessBothPasses ==
    /\ RunReturned
    /\ runProgress.status = "done"
    /\ Len(RunBlocks) = 2
    /\ Cardinality(LlmCalls) = 2
    /\ InsertsOf("rule_based") # {}
    /\ InsertsOf("llm") # {}


(***************************************************************************)
(* Properties of the progress of a run.                                    *)
(***************************************************************************)
\* the statuses of ExtractionProgress in their order; 'error' is last
StatusRank ==
    [st \in {"idle", "rule_based", "llm_extracting", "merging", "saving", "done",
             "error"} |->
        CASE st = "idle" -> 0
          [] st = "rule_based" -> 1
          [] st = "llm_extracting" -> 2
          [] st = "merging" -> 3
          [] st = "saving" -> 4
          [] st = "done" -> 5
          [] st = "error" -> 6]

\* the statuses of the setProgress calls of the run, in their order
StatusesSet == [k \in DOMAIN LogOf("setProgress") |-> LogOf("setProgress")[k].note]

\* the status set last, 'idle' before the first call
StatusSetLast ==
    IF StatusesSet = <<>> THEN "idle" ELSE StatusesSet[Len(StatusesSet)]

\* the statuses never go backward, nothing follows 'done' or 'error', and
\* 'merging' is set only when a block needs the LLM
StatusMovesForward ==
    /\ \A i, j \in DOMAIN StatusesSet :
           i < j => /\ StatusRank[StatusesSet[i]] <= StatusRank[StatusesSet[j]]
                    /\ StatusesSet[i] \notin {"done", "error"}
    /\ (\E i \in DOMAIN StatusesSet : StatusesSet[i] = "merging") => runNeedLlm # <<>>
    /\ runProgress.status = StatusSetLast

\* the statuses a run that ended 'done' went through
StatusesOfDone ==
    {StatusesSet[i] : i \in DOMAIN StatusesSet} =
        {"rule_based", "llm_extracting", "saving", "done"}
        \cup (IF runNeedLlm = <<>> THEN {} ELSE {"merging"})

\* the number of facts of the inserts of the run that succeeded
FactsInserted ==
    SumSeq([k \in DOMAIN LogOf("insert") |->
               IF LogOf("insert")[k].ok THEN Len(LogOf("insert")[k].rows) ELSE 0])

\* C29: during a run the progress status only moves forward along
\* rule_based, llm_extracting, merging, saving, done (merging only when a
\* block needs the LLM) or jumps to error; completedBatches <= totalBatches
\* always; at 'done' completedBatches = totalBatches = the number of blocks
\* sent to the LLM and extractedFacts = the number of facts inserted.
C29_Progress ==
    /\ StatusMovesForward
    /\ runProgress.completedBatches <= runProgress.totalBatches
    /\ runProgress.status = "done" =>
           /\ StatusesOfDone
           /\ runProgress.completedBatches = Len(runNeedLlm)
           /\ runProgress.totalBatches = Len(runNeedLlm)
           /\ Len(LogOf("llm")) = Len(runNeedLlm)
           /\ runProgress.extractedFacts = FactsInserted
           /\ runProgress.extractedFacts = runTotalFacts

\* a run of two blocks sent to the LLM ended 'done' through 'merging', with
\* facts of both passes counted
C29_Witness ==
    /\ runProgress.status = "done"
    /\ runProgress.completedBatches = 2 /\ runProgress.totalBatches = 2
    /\ Len(LogOf("llm")) = 2
    /\ runProgress.extractedFacts > 2
    /\ InsertsOf("rule_based") # {} /\ InsertsOf("llm") # {}
    /\ \E i \in DOMAIN StatusesSet : StatusesSet[i] = "merging"

\* a run with no block for the LLM ended 'done' without 'merging'
C29_WitnessNoLlm ==
    /\ runProgress.status = "done"
    /\ RunBlocks # <<>>
    /\ runNeedLlm = <<>>
    /\ runProgress.totalBatches = 0
    /\ runProgress.extractedFacts = 1
    /\ \A i \in DOMAIN StatusesSet : StatusesSet[i] # "merging"

\* a run jumped to 'error' in the middle of the batch counts
C29_WitnessError ==
    /\ runProgress.status = "error"
    /\ runProgress.totalBatches = 2
    /\ runProgress.completedBatches = 2
    /\ LlmSaveFailed

(***************************************************************************)
(* Specifications.  Each component is checked on its own: the variables of *)
(* the other components keep their idle values.                            *)
(***************************************************************************)
\* parseDocument not called
ParserIdle ==
    /\ mdText = <<>>
    /\ lines = <<>>
    /\ lineIdx = 1
    /\ pages = <<>>
    /\ currentPage = NoPage
    /\ currentBlock = NoBlock
    /\ inPageMetadata = FALSE
    /\ parsePc = "idle"
    /\ doc = NoDoc

\* classifyTable not called
ClassifierIdle == headers = <<>> /\ category = Null

\* generateCanonicalKey and slugify not called
CanonicalIdle == name = Null /\ keyOut = <<>> /\ slugOut = <<>>

\* mergeResults not called
MergeIdle == ruleBased = Null /\ llmItems = Null /\ merged = Null

\* llmExtractBatch not called
BatchIdle ==
    /\ blocks = <<>>
    /\ batchI = 0
    /\ results = <<>>
    /\ batchPc = "idle"
    /\ attempt = 0
    /\ outstanding = 0
    /\ callLog = <<>>
    /\ iterations = <<>>
    /\ progressCalls = <<>>

\* buildBlock not called
TablesIdle ==
    blockLines = <<>> /\ builtBlock = Null

\* parseRussianNumber not called
NumberIdle ==
    numText = <<>> /\ numCalled = FALSE /\ numResult = Null

\* ruleBasedExtract not called
ExtractIdle ==
    exBlock = Null /\ exItems = Null /\ exColumns = <<>>

\* runExtraction not called
RunIdle ==
    /\ runParsed = <<>>
    /\ runStored = {}
    /\ runFacts = <<>>
    /\ runDocStatus = "idle"
    /\ runProgress = Null
    /\ runPc = "idle"
    /\ runRuleResults = <<>>
    /\ runNeedLlm = <<>>
    /\ runLlmI = 0
    /\ runLlmResults = <<>>
    /\ runQueue = <<>>
    /\ runTotalFacts = 0
    /\ runLog = <<>>

\* callLlmJson is not called
LlmIdle ==
    /\ llmApiKey = FALSE /\ llmTimeoutMs = Null /\ llmAttempt = 0
    /\ llmLastError = Null /\ llmFetched = Null /\ llmPc = "idle"
    /\ llmOutcome = Null /\ llmLog = <<>>

InitParser ==
    /\ ParserInit
    /\ ClassifierIdle
    /\ CanonicalIdle
    /\ MergeIdle
    /\ BatchIdle
    /\ TablesIdle
    /\ NumberIdle
    /\ ExtractIdle
    /\ RunIdle
    /\ LlmIdle

SpecParser == InitParser /\ [][ParserNext]_vars

InitClassifier ==
    /\ ClassifierInit
    /\ ParserIdle
    /\ CanonicalIdle
    /\ MergeIdle
    /\ BatchIdle
    /\ TablesIdle
    /\ NumberIdle
    /\ ExtractIdle
    /\ RunIdle
    /\ LlmIdle

SpecClassifier == InitClassifier /\ [][ClassifierNext]_vars

InitCanonical ==
    /\ CanonicalInit
    /\ ParserIdle
    /\ ClassifierIdle
    /\ MergeIdle
    /\ BatchIdle
    /\ TablesIdle
    /\ NumberIdle
    /\ ExtractIdle
    /\ RunIdle
    /\ LlmIdle

SpecCanonical == InitCanonical /\ [][CanonicalNext]_vars

InitMerge ==
    /\ MergeInit
    /\ ParserIdle
    /\ ClassifierIdle
    /\ CanonicalIdle
    /\ BatchIdle
    /\ TablesIdle
    /\ NumberIdle
    /\ ExtractIdle
    /\ RunIdle
    /\ LlmIdle

SpecMerge == InitMerge /\ [][MergeNext]_vars

InitBatch ==
    /\ BatchInit
    /\ ParserIdle
    /\ ClassifierIdle
    /\ CanonicalIdle
    /\ MergeIdle
    /\ TablesIdle
    /\ NumberIdle
    /\ ExtractIdle
    /\ RunIdle
    /\ LlmIdle

SpecBatch == InitBatch /\ [][BatchNext]_vars

InitTables ==
    /\ TablesInit
    /\ ParserIdle
    /\ ClassifierIdle
    /\ CanonicalIdle
    /\ MergeIdle
    /\ BatchIdle
    /\ NumberIdle
    /\ ExtractIdle
    /\ RunIdle
    /\ LlmIdle

SpecTables == InitTables /\ [][TablesNext]_vars

InitNumber ==
    /\ NumberInit
    /\ ParserIdle
    /\ ClassifierIdle
    /\ CanonicalIdle
    /\ MergeIdle
    /\ BatchIdle
    /\ TablesIdle
    /\ ExtractIdle
    /\ RunIdle
    /\ LlmIdle

SpecNumber == InitNumber /\ [][NumberNext]_vars

InitExtract ==
    /\ ExtractInit
    /\ ParserIdle
    /\ ClassifierIdle
    /\ CanonicalIdle
    /\ MergeIdle
    /\ BatchIdle
    /\ TablesIdle
    /\ NumberIdle
    /\ RunIdle
    /\ LlmIdle

SpecExtract == InitExtract /\ [][ExtractNext]_vars

InitRun ==
    /\ RunInit
    /\ ParserIdle
    /\ ClassifierIdle
    /\ CanonicalIdle
    /\ MergeIdle
    /\ BatchIdle
    /\ TablesIdle
    /\ NumberIdle
    /\ ExtractIdle
    /\ LlmIdle

SpecRun == InitRun /\ [][RunNext]_vars

InitLlm ==
    /\ LlmInit
    /\ ParserIdle
    /\ ClassifierIdle
    /\ CanonicalIdle
    /\ MergeIdle
    /\ BatchIdle
    /\ TablesIdle
    /\ NumberIdle
    /\ ExtractIdle
    /\ RunIdle

SpecLlm == InitLlm /\ [][LlmNext]_vars

====
